---- MODULE Spec2Model ----
(***************************************************************************)
(* Sleep journal: the analytics engine (SleepAnalytics, lib/analytics)     *)
(* applied to the entry list a caller supplies.                            *)
(*                                                                         *)
(* Numbers.  A date 'YYYY-MM-DD' is modelled by its day number (days since *)
(* 1970-01-01); new Date(date).getTime() is that day's UTC midnight.  An   *)
(* instant is counted in ticks of half a day, so that "now" can fall on a  *)
(* midnight or strictly inside a day.  Values the code rounds to two       *)
(* decimals are kept as integers in hundredths, values rounded to one      *)
(* decimal as integers in tenths; quotients are compared by cross          *)
(* multiplication, i.e. in exact arithmetic.  The code computes in doubles;*)
(* a double result can differ from the exact one only where a value that   *)
(* took several floating-point operations (analyzeTrend's change and       *)
(* percentage, generateInsights' weekendDiff) falls exactly on a threshold *)
(* or on a rounding tie.                                                   *)
(*                                                                         *)
(* The data layer (app/actions.ts over the sleep_logs table of lib/db):    *)
(* each server action issues one SQL statement, which the database runs    *)
(* atomically, so an action is one step and the steps of different         *)
(* requests interleave freely.  The session user is an input of each       *)
(* request.  The server's time zone is an offset in ticks from UTC.  The   *)
(* timestamps created_at and updated_at are left out, and so are the two   *)
(* averages of getData, which are separate read-only queries.              *)
(*                                                                         *)
(* Sessions (lib/auth): a request carries a token, the browser's cookie or *)
(* any token issued before; the cookie a response sets reaches the browser *)
(* when the request carried the browser's cookie.  A statement sent to the *)
(* database can fail.  The server's and the database's clocks are one      *)
(* clock.                                                                  *)
(*                                                                         *)
(* RateLimiter (lib/logger): attempts is its static map; every call for a  *)
(* key is made with the same maxAttempts and windowMs.                     *)
(***************************************************************************)
EXTENDS Integers, Sequences, FiniteSets, TLC

VARIABLES entries, now, result, sleep_logs, sleep_logs_id_seq, zone, args,
          user_sessions, session_seq, cookie, signed_out, attempts,
          users, users_id_seq, timers, timer_seq

vars == <<entries, now, result, sleep_logs, sleep_logs_id_seq, zone, args,
          user_sessions, session_seq, cookie, signed_out, attempts,
          users, users_id_seq, timers, timer_seq>>

\* the table, its id sequence and the server's time zone
storeVars == <<sleep_logs, sleep_logs_id_seq, zone>>

\* the sessions table, the tokens generated so far, the cookie the browser
\* holds, and the history of the sign-outs: the tokens whose sign-out has
\* completed
sessionVars == <<user_sessions, session_seq, cookie, signed_out>>

\* the users table with its id sequence, and the timers of the performance
\* monitor with the timer ids generated so far
accountVars == <<users, users_id_seq, timers, timer_seq>>

\* the state of the authentication services
serviceVars == <<sessionVars, attempts, accountVars>>

\* what the analytics calls, and what the server actions, leave alone
outsideAnalytics == <<storeVars, args, serviceVars>>

outsideStore == <<args, serviceVars>>

(***************************************************************************)
(* Bounds of the enumerated inputs.                                        *)
(***************************************************************************)
MaxLen == 3          \* longest list of the exhaustive small family
MaxDays == 3         \* calendar days the small family draws its dates from
MaxBlocks == 2       \* runs of equal rating in a list of the long family
MaxShortRun == 1     \* short runs of the long family have 1..MaxShortRun entries
MaxEntries == 32     \* longest list of the long family
MaxWeekLen == 8      \* longest list of the daily family
MaxPeriodLen == 2    \* longest list of the period family
MaxInsightLen == 16  \* longest list of the insight family
MaxId == 2           \* ids the sequence of sleep_logs hands out
MaxSessions == 2     \* session tokens generated
MaxAdvances == 2     \* session lifetimes the clock runs
MaxCount == 3        \* calls counted in one record of the rate limiter
MaxTicks == 6        \* ticks the clock of the rate limiter runs
MaxUsers == 2        \* ids the sequence of users hands out
MaxTimers == 4       \* timers started

(***************************************************************************)
(* Program constants.                                                      *)
(***************************************************************************)
TicksPerDay == 2
Today == 19723       \* 2024-01-01, a Monday
RecentCutoff == 30   \* calculateStreaks: index < 30
TrendWindow == 14    \* analyzeTrend: slice(-14)
TrendMinEntries == 7 \* analyzeTrend: entries.length < 7
RecentCount == 7     \* generateInsights: slice(-7)

Ratings == 1..10
SmallRatings == {1, 5, 7, 10}
BlockRatings == {4, 5, 7}
WeekRatings == {1, 10}
PeriodRatings == {2, 9}
InsightRatings == {1, 5, 10}

(***************************************************************************)
(* Arithmetic helpers.                                                     *)
(***************************************************************************)
Max(a, b) == IF a >= b THEN a ELSE b

Abs(a) == IF a < 0 THEN -a ELSE a

\* Math.round(num / den) for num >= 0, den > 0: floor(x + 0.5)
RoundDiv(num, den) == (2 * num + den) \div (2 * den)

RECURSIVE SumRatings(_)
SumRatings(s) == IF s = <<>> THEN 0 ELSE Head(s).rating + SumRatings(Tail(s))

\* new Date(entry.date).getTime(), in ticks
getTime(date) == date * TicksPerDay

\* Array.prototype.slice(from) with a negative start: the last k elements
SliceLast(s, k) == IF Len(s) <= k THEN s ELSE SubSeq(s, Len(s) - k + 1, Len(s))

(***************************************************************************)
(* [...entries].sort(compare): a stable sort of a copy.  before(a, b) is   *)
(* compare(a, b) < 0.                                                      *)
(***************************************************************************)
SortBy(s, before(_, _)) == SortSeq(s, before)

dateAscending(a, b) == getTime(a.date) - getTime(b.date) < 0

dateDescending(a, b) == getTime(b.date) - getTime(a.date) < 0

(***************************************************************************)
(* SleepAnalytics.calculateStreaks                                         *)
(***************************************************************************)
entryType(rating) ==
  IF rating >= 7 THEN "good" ELSE IF rating <= 4 THEN "bad" ELSE "neutral"

\* the mutant: the recency guard of the same-type branch is missing
StreakStepNoCutoff(st, entry, index) ==
  LET et == entryType(entry.rating) IN
  IF index = 0
    THEN [st EXCEPT !.currentStreak = 1, !.currentStreakType = et,
                    !.tempStreak = 1, !.tempType = et]
  ELSE IF et = st.tempType
    THEN [st EXCEPT !.tempStreak = @ + 1,
                    !.currentStreak = st.tempStreak + 1,
                    !.currentStreakType = st.tempType]
  ELSE [st EXCEPT !.longestStreak = Max(st.longestStreak, st.tempStreak),
                  !.tempStreak = 1, !.tempType = et,
                  !.currentStreak = IF index < RecentCutoff THEN 1 ELSE @,
                  !.currentStreakType = IF index < RecentCutoff THEN et ELSE @]

\* the body of sortedEntries.forEach((entry, index) => ...)
StreakStep(st, entry, index) ==
  LET et == entryType(entry.rating) IN
  IF index = 0
    THEN [st EXCEPT !.currentStreak = 1, !.currentStreakType = et,
                    !.tempStreak = 1, !.tempType = et]
  ELSE IF et = st.tempType
    THEN [st EXCEPT !.tempStreak = @ + 1,
                    !.currentStreak =
                       IF index < RecentCutoff THEN st.tempStreak + 1 ELSE @,
                    !.currentStreakType =
                       IF index < RecentCutoff THEN st.tempType ELSE @]
  ELSE [st EXCEPT !.longestStreak = Max(st.longestStreak, st.tempStreak),
                  !.tempStreak = 1, !.tempType = et,
                  !.currentStreak = IF index < RecentCutoff THEN 1 ELSE @,
                  !.currentStreakType = IF index < RecentCutoff THEN et ELSE @]

RECURSIVE StreakLoop(_, _, _)
StreakLoop(sorted, i, st) ==
  IF i > Len(sorted) THEN st
  ELSE StreakLoop(sorted, i + 1, StreakStep(st, sorted[i], i - 1))

StreakInit ==
  [currentStreak |-> 0, longestStreak |-> 0, currentStreakType |-> "neutral",
   tempStreak |-> 0, tempType |-> "neutral"]

\* the mutant: the running streak is not closed out after the loop
calculateStreaksNoFinalMax(es) ==
  IF Len(es) = 0 THEN [current |-> 0, longest |-> 0, type |-> "neutral"]
  ELSE LET st == StreakLoop(SortBy(es, dateDescending), 1, StreakInit)
       IN [current |-> st.currentStreak,
           longest |-> st.longestStreak,
           type |-> st.currentStreakType]

calculateStreaks(es) ==
  IF Len(es) = 0 THEN [current |-> 0, longest |-> 0, type |-> "neutral"]
  ELSE LET st == StreakLoop(SortBy(es, dateDescending), 1, StreakInit)
       IN [current |-> st.currentStreak,
           longest |-> Max(st.longestStreak, st.tempStreak),
           type |-> st.currentStreakType]

(***************************************************************************)
(* SleepAnalytics.calculateTrend: the coarse, regression form              *)
(***************************************************************************)
RECURSIVE SumXY(_, _)
SumXY(y, i) == IF i > Len(y) THEN 0 ELSE (i - 1) * y[i].rating + SumXY(y, i + 1)

RECURSIVE SumIndex(_, _)
SumIndex(n, power) ==
  IF n = 0 THEN 0
  ELSE (IF power = 2 THEN (n - 1) * (n - 1) ELSE n - 1) + SumIndex(n - 1, power)

\* the mutant: the list is regressed in the order it was supplied
calculateTrendUnsorted(es) ==
  IF Len(es) < 3 THEN "stable"
  ELSE LET n == Len(es)
           sumX == SumIndex(n, 1)
           sumY == SumRatings(es)
           sumXY == SumXY(es, 1)
           sumXX == SumIndex(n, 2)
           slopeNum == n * sumXY - sumX * sumY
           slopeDen == n * sumXX - sumX * sumX
       IN IF 10 * slopeNum > slopeDen THEN "improving"
          ELSE IF 10 * slopeNum < -slopeDen THEN "declining"
          ELSE "stable"

\* slope = slopeNum / slopeDen with slopeDen > 0 for n >= 2;
\* slope > 0.1 is 10 * slopeNum > slopeDen
calculateTrend(es) ==
  IF Len(es) < 3 THEN "stable"
  ELSE LET sortedEntries == SortBy(es, dateAscending)
           n == Len(sortedEntries)
           sumX == SumIndex(n, 1)
           sumY == SumRatings(sortedEntries)
           sumXY == SumXY(sortedEntries, 1)
           sumXX == SumIndex(n, 2)
           slopeNum == n * sumXY - sumX * sumY
           slopeDen == n * sumXX - sumX * sumX
       IN IF 10 * slopeNum > slopeDen THEN "improving"
          ELSE IF 10 * slopeNum < -slopeDen THEN "declining"
          ELSE "stable"

(***************************************************************************)
(* SleepAnalytics.calculateStatistics                                      *)
(***************************************************************************)
RECURSIVE SumSquares(_)
SumSquares(s) ==
  IF s = <<>> THEN 0 ELSE Head(s).rating * Head(s).rating + SumSquares(Tail(s))

\* Math.round(Math.max(0, 1 - Math.sqrt(variance) / 5) * 100).  With
\* t = 20 * sqrt(variance), the argument is the quotient qNum / qDen = 4 * t^2;
\* round(100 - t) is 100 - m for the m with m - 1/2 < t <= m + 1/2, compared
\* after squaring; t >= 100 is clamped to 0 by Math.max.
\* the mutant: the deviation itself, not its inverse
ConsistencyHundredthsNotInverted(qNum, qDen) ==
  IF qNum >= 40000 * qDen THEN 100
  ELSE CHOOSE m \in 0..100 :
         /\ qNum <= (2 * m + 1) * (2 * m + 1) * qDen
         /\ m = 0 \/ (2 * m - 1) * (2 * m - 1) * qDen < qNum

ConsistencyHundredths(qNum, qDen) ==
  IF qNum >= 40000 * qDen THEN 0
  ELSE 100 - (CHOOSE m \in 0..100 :
                /\ qNum <= (2 * m + 1) * (2 * m + 1) * qDen
                /\ m = 0 \/ (2 * m - 1) * (2 * m - 1) * qDen < qNum)

MaxRating(es) == CHOOSE r \in {es[i].rating : i \in 1..Len(es)} :
                   \A i \in 1..Len(es) : es[i].rating <= r

MinRating(es) == CHOOSE r \in {es[i].rating : i \in 1..Len(es)} :
                   \A i \in 1..Len(es) : es[i].rating >= r

\* the mutant: the empty list is reported as perfectly consistent
calculateStatisticsEmptyConsistent(es) ==
  IF Len(es) = 0
    THEN [average |-> 0, highest |-> 0, lowest |-> 0, total |-> 0,
          trend |-> "stable", consistency |-> 100]
  ELSE LET total == Len(es)
           sum == SumRatings(es)
       IN [average |-> RoundDiv(100 * sum, total),
           highest |-> MaxRating(es),
           lowest |-> MinRating(es),
           total |-> total,
           trend |-> calculateTrend(es),
           consistency |->
             ConsistencyHundredths(
               1600 * (total * SumSquares(es) - sum * sum), total * total)]

\* average and consistency in hundredths
calculateStatistics(es) ==
  IF Len(es) = 0
    THEN [average |-> 0, highest |-> 0, lowest |-> 0, total |-> 0,
          trend |-> "stable", consistency |-> 0]
  ELSE LET total == Len(es)
           sum == SumRatings(es)
       IN [average |-> RoundDiv(100 * sum, total),
           highest |-> MaxRating(es),
           lowest |-> MinRating(es),
           total |-> total,
           trend |-> calculateTrend(es),
           consistency |->
             \* variance = (total * sum of squares - sum^2) / total^2
             ConsistencyHundredths(
               1600 * (total * SumSquares(es) - sum * sum), total * total)]

(***************************************************************************)
(* SleepAnalytics.analyzeTrend: the detailed, two-window form.             *)
(* change = recentAvg - earlierAvg = changeNum / (rn * en) and             *)
(* change / earlierAvg = changeNum / (rn * esum), rn, en the window sizes  *)
(* and rsum, esum the window sums.  percentage in tenths.                  *)
(***************************************************************************)
\* the mutant: the thresholds are inclusive
TrendStrengthInclusive(absNum, den) ==
  IF 100 * absNum >= 20 * den THEN "strong"
  ELSE IF 100 * absNum >= 10 * den THEN "moderate"
  ELSE "weak"

TrendStrength(absNum, den) ==
  IF 100 * absNum > 20 * den THEN "strong"
  ELSE IF 100 * absNum > 10 * den THEN "moderate"
  ELSE "weak"

\* the mutant: the earlier window ends 7 entries before the end
earlierWindowOverlapping(sortedEntries) ==
  LET n == Len(sortedEntries)
  IN IF n <= TrendMinEntries THEN <<>>
     ELSE SubSeq(sortedEntries, Max(n - 2 * TrendWindow, 0) + 1,
                 n - TrendMinEntries)

\* sortedEntries.slice(-28, -14)
earlierWindow(sortedEntries) ==
  LET n == Len(sortedEntries)
  IN IF n <= TrendWindow THEN <<>>
     ELSE SubSeq(sortedEntries, Max(n - 2 * TrendWindow, 0) + 1,
                 n - TrendWindow)

analyzeTrend(es) ==
  IF Len(es) < TrendMinEntries
    THEN [direction |-> "stable", strength |-> "weak", percentage |-> 0,
          description |-> [text |-> "Necesitas mas datos", value |-> 0]]
  ELSE
    LET sortedEntries == SortBy(es, dateAscending)
        recentEntries == SliceLast(sortedEntries, TrendWindow)
        earlierEntries == earlierWindow(sortedEntries)
    IN IF Len(earlierEntries) = 0
         THEN [direction |-> "stable", strength |-> "weak", percentage |-> 0,
               description |-> [text |-> "Datos insuficientes", value |-> 0]]
       ELSE
         LET rn == Len(recentEntries)
             en == Len(earlierEntries)
             rsum == SumRatings(recentEntries)
             esum == SumRatings(earlierEntries)
             changeNum == rsum * en - esum * rn
             pctDen == rn * esum
             tenths == RoundDiv(1000 * Abs(changeNum), pctDen)
         IN IF 10 * Abs(changeNum) < 3 * rn * en
              THEN [direction |-> "stable", strength |-> "weak",
                    percentage |-> tenths,
                    description |-> [text |-> "se mantiene estable",
                                     value |-> RoundDiv(10 * rsum, rn)]]
            ELSE IF changeNum > 0
              THEN [direction |-> "improving",
                    strength |-> TrendStrength(Abs(changeNum), pctDen),
                    percentage |-> tenths,
                    description |-> [text |-> "ha mejorado", value |-> tenths]]
            ELSE [direction |-> "declining",
                  strength |-> TrendStrength(Abs(changeNum), pctDen),
                  percentage |-> tenths,
                  description |-> [text |-> "ha empeorado", value |-> tenths]]

(***************************************************************************)
(* SleepAnalytics.analyzePatterns                                          *)
(***************************************************************************)
dayNames ==
  <<"Domingo", "Lunes", "Martes", "Miercoles", "Jueves", "Viernes", "Sabado">>

\* the mutant: Saturday is a working day
weekdaysWithSaturday ==
  {"Lunes", "Martes", "Miercoles", "Jueves", "Viernes", "Sabado"}

weekdays == {"Lunes", "Martes", "Miercoles", "Jueves", "Viernes"}

weekends == {"Sabado", "Domingo"}

\* new Date(date + 'T00:00:00').getDay(): 1970-01-01 was a Thursday
getDay(date) == (date + 4) % 7

dayNameOf(entry) == dayNames[getDay(entry.date) + 1]

NaN == [nan |-> TRUE, x |-> 0]

Num(x) == [nan |-> FALSE, x |-> x]

\* dayTotals[day] = { sum, count }
dayTotalsOf(es) ==
  [d \in 1..7 |->
     LET ofDay == SelectSeq(es, LAMBDA e : dayNameOf(e) = dayNames[d])
     IN [sum |-> SumRatings(ofDay), count |-> Len(ofDay)]]

\* let bestAvg = 0; let worstAvg = 10 (kept as quotients)
BestWorstInit ==
  [bestDay |-> "", worstDay |-> "",
   bestNum |-> 0, bestDen |-> 1, worstNum |-> 10, worstDen |-> 1]

\* the second dayNames.forEach: avg > bestAvg, avg < worstAvg
RECURSIVE BestWorstLoop(_, _, _)
BestWorstLoop(dayTotals, d, bw) ==
  IF d > 7 THEN bw
  ELSE LET t == dayTotals[d] IN
       IF t.count > 0
         THEN LET b1 == IF t.sum * bw.bestDen > bw.bestNum * t.count
                          THEN [bw EXCEPT !.bestNum = t.sum, !.bestDen = t.count,
                                          !.bestDay = dayNames[d]]
                          ELSE bw
                  b2 == IF t.sum * b1.worstDen < b1.worstNum * t.count
                          THEN [b1 EXCEPT !.worstNum = t.sum, !.worstDen = t.count,
                                          !.worstDay = dayNames[d]]
                          ELSE b1
              IN BestWorstLoop(dayTotals, d + 1, b2)
         ELSE BestWorstLoop(dayTotals, d + 1, bw)

RECURSIVE SumSeq(_)
SumSeq(s) == IF s = <<>> THEN 0 ELSE Head(s) + SumSeq(Tail(s))

RECURSIVE SumSeqSquares(_)
SumSeqSquares(s) == IF s = <<>> THEN 0 ELSE Head(s) * Head(s) + SumSeqSquares(Tail(s))

\* averages in hundredths; consistencyScore is NaN when no day has data (0 / 0)
analyzePatterns(es) ==
  LET dayTotals == dayTotalsOf(es)
      patterns == [d \in 1..7 |->
                     IF dayTotals[d].count > 0
                       THEN RoundDiv(100 * dayTotals[d].sum, dayTotals[d].count)
                       ELSE 0]
      bw == BestWorstLoop(dayTotals, 1, BestWorstInit)
      weekdayRatings == SelectSeq(es, LAMBDA e : dayNameOf(e) \in weekdays)
      weekendRatings ==
        SelectSeq(es, LAMBDA e : dayNameOf(e) \notin weekdays
                                   /\ dayNameOf(e) \in weekends)
      weekdayAverage ==
        IF Len(weekdayRatings) > 0
          THEN RoundDiv(100 * SumRatings(weekdayRatings), Len(weekdayRatings))
          ELSE 0
      weekendAverage ==
        IF Len(weekendRatings) > 0
          THEN RoundDiv(100 * SumRatings(weekendRatings), Len(weekendRatings))
          ELSE 0
      validAverages == SelectSeq(patterns, LAMBDA avg : avg > 0)
      k == Len(validAverages)
      \* the variance of the rounded averages, in hundredths squared,
      \* is varNum / (k * k)
      varNum == k * SumSeqSquares(validAverages)
                  - SumSeq(validAverages) * SumSeq(validAverages)
  IN [weekdayAverage |-> weekdayAverage,
      weekendAverage |-> weekendAverage,
      bestDay |-> IF bw.bestDay = "" THEN "N/A" ELSE bw.bestDay,
      worstDay |-> IF bw.worstDay = "" THEN "N/A" ELSE bw.worstDay,
      consistencyScore |->
        IF k = 0 THEN NaN
        ELSE Num(ConsistencyHundredths(4 * varNum, 25 * k * k)),
      patterns |-> patterns]

(***************************************************************************)
(* SleepAnalytics.generateInsights.  An insight's description is modelled  *)
(* by the number it interpolates.                                          *)
(***************************************************************************)
Insight(type, title, value, actionable) ==
  [type |-> type, title |-> title, value |-> value, actionable |-> actionable]

\* the mutant: a low average yields no insight
averageInsightTwoTiers(overview) ==
  IF overview.average >= 800
    THEN <<Insight("positive", "Excelente calidad de sueno", overview.average, FALSE)>>
  ELSE IF overview.average >= 600
    THEN <<Insight("info", "Calidad de sueno moderada", overview.average, TRUE)>>
  ELSE <<>>

averageInsight(overview) ==
  IF overview.average >= 800
    THEN <<Insight("positive", "Excelente calidad de sueno", overview.average, FALSE)>>
  ELSE IF overview.average >= 600
    THEN <<Insight("info", "Calidad de sueno moderada", overview.average, TRUE)>>
  ELSE <<Insight("warning", "Calidad de sueno preocupante", overview.average, TRUE)>>

trendInsight(trend) ==
  IF trend.direction = "improving" /\ trend.strength # "weak"
    THEN <<Insight("positive", "Tendencia positiva", trend.description.value, FALSE)>>
  ELSE IF trend.direction = "declining" /\ trend.strength # "weak"
    THEN <<Insight("warning", "Tendencia preocupante", trend.description.value, TRUE)>>
  ELSE <<>>

\* the mutant: the upper threshold is inclusive
consistencyInsightInclusive(overview) ==
  IF overview.consistency < 50
    THEN <<Insight("warning", "Sueno inconsistente", 0, TRUE)>>
  ELSE IF overview.consistency >= 80
    THEN <<Insight("positive", "Sueno muy consistente", 0, FALSE)>>
  ELSE <<>>

consistencyInsight(overview) ==
  IF overview.consistency < 50
    THEN <<Insight("warning", "Sueno inconsistente", 0, TRUE)>>
  ELSE IF overview.consistency > 80
    THEN <<Insight("positive", "Sueno muy consistente", 0, FALSE)>>
  ELSE <<>>

\* the description formats weekendDiff with toFixed(1); the value kept is
\* the number formatted, in hundredths (the digit toFixed prints for a
\* difference ending in 5 hundredths depends on the double's last bit)
weekendInsight(pattern) ==
  LET weekendDiff == Abs(pattern.weekendAverage - pattern.weekdayAverage) IN
  IF weekendDiff > 150
    THEN IF pattern.weekendAverage > pattern.weekdayAverage
           THEN <<Insight("info", "Mejor sueno en fines de semana",
                          weekendDiff, TRUE)>>
           ELSE <<Insight("warning", "Peor sueno en fines de semana",
                          weekendDiff, TRUE)>>
  ELSE <<>>

\* entries.slice(-7) of the list as supplied;
\* recentAvg < overview.average - 1
recentInsight(es, overview) ==
  IF Len(es) >= RecentCount
    THEN LET recentEntries == SliceLast(es, RecentCount) IN
         IF 100 * SumRatings(recentEntries)
              < Len(recentEntries) * (overview.average - 100)
           THEN <<Insight("warning", "Semana dificil", 0, TRUE)>>
           ELSE <<>>
  ELSE <<>>

\* the mutant: the consistency rule is evaluated before the trend rule
generateInsightsConsistencyFirst(es, analytics) ==
  averageInsight(analytics.overview)
    \o consistencyInsight(analytics.overview)
    \o trendInsight(analytics.trend)
    \o weekendInsight(analytics.pattern)
    \o recentInsight(es, analytics.overview)

generateInsights(es, analytics) ==
  averageInsight(analytics.overview)
    \o trendInsight(analytics.trend)
    \o consistencyInsight(analytics.overview)
    \o weekendInsight(analytics.pattern)
    \o recentInsight(es, analytics.overview)

(***************************************************************************)
(* SleepAnalytics.comparePeriods, at the instant t = new Date()            *)
(***************************************************************************)
\* calculateAverage, rounded to hundredths
calculateAverage(entryList) ==
  IF Len(entryList) = 0 THEN 0
  ELSE RoundDiv(100 * SumRatings(entryList), Len(entryList))

thisWeekStart(t) == t - 7 * TicksPerDay

lastWeekStart(t) == t - 14 * TicksPerDay

thisMonthStart(t) == t - 30 * TicksPerDay

lastMonthStart(t) == t - 60 * TicksPerDay

thisWeekEntries(es, t) ==
  SelectSeq(es, LAMBDA e : getTime(e.date) >= thisWeekStart(t))

\* the mutant: the entry dated at the start of this week is in last week too
lastWeekEntriesInclusive(es, t) ==
  SelectSeq(es, LAMBDA e : getTime(e.date) >= lastWeekStart(t)
                             /\ getTime(e.date) <= thisWeekStart(t))

lastWeekEntries(es, t) ==
  SelectSeq(es, LAMBDA e : getTime(e.date) >= lastWeekStart(t)
                             /\ getTime(e.date) < thisWeekStart(t))

thisMonthEntries(es, t) ==
  SelectSeq(es, LAMBDA e : getTime(e.date) >= thisMonthStart(t))

lastMonthEntries(es, t) ==
  SelectSeq(es, LAMBDA e : getTime(e.date) >= lastMonthStart(t)
                             /\ getTime(e.date) < thisMonthStart(t))

comparePeriods(es, t) ==
  [thisWeek |-> calculateAverage(thisWeekEntries(es, t)),
   lastWeek |-> calculateAverage(lastWeekEntries(es, t)),
   thisMonth |-> calculateAverage(thisMonthEntries(es, t)),
   lastMonth |-> calculateAverage(lastMonthEntries(es, t))]

(***************************************************************************)
(* SleepAnalytics.generateAdvancedAnalytics                                *)
(***************************************************************************)
generateAdvancedAnalytics(es, t) ==
  LET overview == calculateStatistics(es)
      trend == analyzeTrend(es)
      pattern == analyzePatterns(es)
  IN [overview |-> overview,
      trend |-> trend,
      pattern |-> pattern,
      insights |-> generateInsights(es, [overview |-> overview, trend |-> trend,
                                         pattern |-> pattern]),
      streaks |-> calculateStreaks(es),
      periodComparison |-> comparePeriods(es, t)]

(***************************************************************************)
(* Inputs.                                                                 *)
(***************************************************************************)
Entry(d, r) == [date |-> d, rating |-> r]

\* every list of at most MaxLen entries with distinct dates, in every order
SmallDates == (Today - MaxDays + 1)..Today

SmallLists ==
  UNION {{s \in [1..n -> [date : SmallDates, rating : SmallRatings]] :
            \A i, j \in 1..n : i # j => s[i].date # s[j].date} : n \in 0..MaxLen}

\* lists of runs of equal rating on consecutive days ending today, a run
\* being short or as long as one of the code's windows, give or take one
RunLens ==
  (1..MaxShortRun)
    \cup {TrendWindow - 1, TrendWindow, TrendWindow + 1}
    \cup {RecentCutoff - 1, RecentCutoff, RecentCutoff + 1}

RECURSIVE TotalCount(_)
TotalCount(blocks) ==
  IF blocks = <<>> THEN 0 ELSE Head(blocks).count + TotalCount(Tail(blocks))

RECURSIVE ExpandRatings(_)
ExpandRatings(blocks) ==
  IF blocks = <<>> THEN <<>>
  ELSE [i \in 1..Head(blocks).count |-> Head(blocks).rating]
         \o ExpandRatings(Tail(blocks))

\* the list with the given ratings, most recent first, one entry a day
DailyDescending(ratings) ==
  [i \in 1..Len(ratings) |-> Entry(Today - i + 1, ratings[i])]

Reverse(s) == [i \in 1..Len(s) |-> s[Len(s) + 1 - i]]

LongLists ==
  LET blockSeqs ==
        UNION {[1..k -> [rating : BlockRatings, count : RunLens]] : k \in 1..MaxBlocks}
  IN {DailyDescending(ExpandRatings(b)) :
        b \in {c \in blockSeqs : TotalCount(c) <= MaxEntries}}

\* the list as getData returns it (ORDER BY date DESC): daily entries with
\* extreme ratings
WeekLists ==
  UNION {{DailyDescending(rs) : rs \in [1..n -> WeekRatings]} : n \in 0..MaxWeekLen}

\* lists dated around the bounds of the period windows
PeriodDates ==
  UNION {{Today - d - 1, Today - d, Today - d + 1} : d \in {-1, 7, 14, 30, 60}}

PeriodLists ==
  UNION {{s \in [1..n -> [date : PeriodDates, rating : PeriodRatings]] :
            \A i, j \in 1..n : i # j => s[i].date # s[j].date} : n \in 0..MaxPeriodLen}

\* daily lists, most recent first, whose rating depends on whether the day
\* is among the TrendWindow most recent and on whether it is a weekend day:
\* q = <<earlier weekend, earlier weekday, recent weekend, recent weekday>>
PatternedDaily(n, q) ==
  [i \in 1..n |->
     LET date == Today - i + 1
         weekend == getDay(date) \in {0, 6}
     IN Entry(date, IF i <= TrendWindow
                      THEN (IF weekend THEN q[3] ELSE q[4])
                      ELSE (IF weekend THEN q[1] ELSE q[2]))]

InsightLens == {0, RecentCount} \cup ((TrendWindow + 1)..MaxInsightLen)

InsightLists ==
  LET descending == {PatternedDaily(n, q) :
                       n \in InsightLens, q \in [1..4 -> InsightRatings]}
  IN descending \cup {Reverse(l) : l \in descending}

(***************************************************************************)
(* The data layer: validation (lib/validation), sleep duration (lib/utils) *)
(* and the sleep_logs table (lib/db).                                      *)
(***************************************************************************)
\* null where a text or a record is expected, and where a number is
Null == "null"

NullNumber == -1

\* the users that can hold a session, and the request without a session
Users == {"u1", "u2"}

NoUser == "nobody"

\* 2000-01-01 as a day number
MinSleepDate == 10957

\* new Date(input + 'T00:00:00'): midnight of the day on the server's clock,
\* as an instant (ticks, UTC); z is the server's offset from UTC in ticks
localMidnight(date, z) == getTime(date) - z

\* toISOString().split('T')[0]: the UTC day of an instant
isoDay(t) == t \div TicksPerDay

\* the empty string and null: the missing date
NoDate == 0

sanitizeDate(input, z) ==
  IF input = NoDate THEN NoDate ELSE isoDay(localMidnight(input, z))

\* today.setHours(23, 59, 59, 999): the last instant of the server's day,
\* compared by the first tick of the next one
isValidSleepDate(dateString, t, z) ==
  LET date == localMidnight(dateString, z)
      tomorrow == localMidnight(isoDay(t + z) + 1, z)
  IN date < tomorrow /\ date >= getTime(MinSleepDate)

isValidRating(rating) == rating \in Int /\ rating >= 1 /\ rating <= 10

sanitizeNumber(input, min, max) ==
  IF input < min \/ input > max THEN NullNumber ELSE input

\* the date rule of sleepEntrySchema
dateRule(value, t, z) ==
  /\ value # NoDate
  /\ sanitizeDate(value, z) # NoDate
  /\ isValidSleepDate(sanitizeDate(value, z), t, z)

\* the rating rule of sleepEntrySchema
ratingRule(value) == value >= 1 /\ value <= 10 /\ isValidRating(value)

validateSleepEntry(data, t, z) ==
  IF ~(dateRule(data.date, t, z) /\ ratingRule(data.rating))
  THEN [valid |-> FALSE, sanitized |-> Null]
  ELSE LET sanitizedRating == sanitizeNumber(data.rating, 1, 10)
       IN [valid |-> TRUE,
           sanitized |->
             [date |-> sanitizeDate(data.date, z),
              rating |-> IF sanitizedRating = NullNumber THEN 0 ELSE sanitizedRating,
              comments |-> data.comments]]

\* a clock time a form carries, already matched against HH:MM, is minutes
\* after midnight
NoTime == NullNumber

NoDuration ==
  [hours |-> NullNumber, minutes |-> NullNumber, totalMinutes |-> NullNumber]

MinutesPerDay == 1440

\* a time text is the sequence of its parts between colons, each part what
\* Number makes of it; the empty text has no part
NoText == <<>>

\* the text of a clock time of a form
timeText(time) ==
  IF time = NoTime THEN NoText ELSE <<Num(time \div 60), Num(time % 60)>>

\* setHours(hour, min, 0, 0) on the base date, in minutes after its midnight:
\* fields out of range roll over (the server's zone keeps one offset around
\* 2000-01-01)
setHours(hour, min) == 60 * hour + min

calculateSleepDuration(startTime, endTime) ==
  IF startTime = NoText \/ endTime = NoText
  THEN NoDuration
  ELSE IF Len(startTime) # 2 \/ Len(endTime) # 2
  THEN NoDuration
  ELSE IF startTime[1].nan \/ startTime[2].nan \/ endTime[1].nan \/ endTime[2].nan
  THEN NoDuration
  ELSE LET start == setHours(startTime[1].x, startTime[2].x)
           sameDay == setHours(endTime[1].x, endTime[2].x)
           end == IF sameDay <= start THEN sameDay + MinutesPerDay ELSE sameDay
           totalMinutes == end - start
       IN [hours |-> RoundDiv(100 * totalMinutes, 60),
           minutes |-> totalMinutes % 60,
           totalMinutes |-> totalMinutes]

\* INSERT ... ON CONFLICT (user_id, date) DO UPDATE SET ...: the row with the
\* key keeps its id and takes the other columns of the new row
upsert(table, row) ==
  IF \E r \in table : r.user_id = row.user_id /\ r.date = row.date
  THEN {IF r.user_id = row.user_id /\ r.date = row.date
          THEN [row EXCEPT !.id = r.id]
          ELSE r : r \in table}
  ELSE table \cup {row}

RECURSIVE orderByDateDesc(_)
orderByDateDesc(rows) ==
  IF rows = {}
  THEN <<>>
  ELSE LET first == CHOOSE r \in rows :
                      \A q \in rows : q.date < r.date \/ (q.date = r.date /\ q.id >= r.id)
       IN <<first>> \o orderByDateDesc(rows \ {first})

\* SELECT ... FROM sleep_logs WHERE user_id = userId ORDER BY date DESC
selectEntries(table, userId) ==
  orderByDateDesc({r \in table : r.user_id = userId})

\* the requests
\* parseInt of the rating texts a form can carry: the digits at the head of
\* the text, NaN when there are none
parseInt(text) ==
  CASE text = "3" -> Num(3)
    [] text = "8" -> Num(8)
    [] text = "0" -> Num(0)
    [] text = "11" -> Num(11)
    [] text = "7abc" -> Num(7)
    [] text = "13" -> Num(13)
    [] text = "99" -> Num(99)
    [] text = "100" -> Num(100)
    [] text = "150" -> Num(150)
    [] OTHER -> NaN

\* parseInt(rawData.rating) || 0
parseIntOrZero(text) == IF parseInt(text).nan THEN 0 ELSE parseInt(text).x

\* rating, comments and times of a form: a bare one and a full one with an
\* overnight span
BareForm(rating) ==
  [rating |-> rating, comments |-> Null, start_time |-> NoTime, end_time |-> NoTime]

FullForm(rating) ==
  [rating |-> rating, comments |-> "c", start_time |-> 1380, end_time |-> 420]

Form(date, form) == [date |-> date, form |-> form]

\* forms for yesterday and today, for the day after tomorrow and without a
\* date, and forms for today with rating 0 and a start time only, with rating
\* 11, with no rating and with digits followed by letters
Forms ==
  {Form(date, form) : date \in {Today - 1, Today},
                      form \in {BareForm("3"), FullForm("8")}}
  \cup {Form(Today + 2, BareForm("3")),
        Form(NoDate, BareForm("3")),
        Form(Today, [BareForm("0") EXCEPT !.start_time = 1380]),
        Form(Today, BareForm("11")),
        Form(Today, BareForm("")),
        Form(Today, BareForm("7abc"))}

FormIds == 0..MaxId

\* time texts: clock times, and 25:00, 07:60, 12, ab:00, 1:2:3 and the empty
\* text
ClockTexts == {<<Num(h), Num(m)>> : h \in {0, 7, 23}, m \in {0, 59}}

TimeTexts ==
  ClockTexts \cup {<<Num(25), Num(0)>>, <<Num(7), Num(60)>>, <<Num(12)>>,
                   <<NaN, Num(0)>>, <<Num(1), Num(2), Num(3)>>, NoText}

\* west of UTC, UTC, east of UTC
Zones == {-1, 0, 1}

\* the analytics calls leave the table alone
StoreIdle ==
  /\ sleep_logs = {}
  /\ sleep_logs_id_seq = 0
  /\ zone = 0

(***************************************************************************)
(* Sessions (lib/auth) over the user_sessions table (lib/db).              *)
(***************************************************************************)
\* SESSION_DURATION, 30 days
SessionDuration == 30 * TicksPerDay

\* no cookie, and a token that generateSessionToken never returned
NoToken == 0

ForgedToken == MaxSessions + 1

\* the steps of the clock: just before and at the end of a session's life
ClockSteps == {SessionDuration - 1, SessionDuration}

\* the token of a request: the browser's cookie, a token issued before or
\* a forged one
RequestTokens == {cookie, NoToken, ForgedToken} \cup 1..session_seq

\* cookies().set(...) of the response
setCookie(sessionToken, value) == IF sessionToken = cookie THEN value ELSE cookie

\* SELECT ... FROM users u INNER JOIN user_sessions s ... WHERE
\* s.session_token = sessionToken AND s.expires_at > NOW()
liveSessions(sessionToken, t) ==
  {s \in user_sessions : s.session_token = sessionToken /\ s.expires_at > t}

SessionIdle ==
  /\ user_sessions = {}
  /\ session_seq = 0
  /\ cookie = NoToken
  /\ signed_out = {}

(***************************************************************************)
(* RateLimiter (lib/logger).                                               *)
(***************************************************************************)
Keys == {"a", "b"}

\* the parameters of the calls
maxAttempts == 2

windowMs == 2

\* this.attempts.set(key, record) and this.attempts.delete(key)
mapSet(map, key, value) ==
  [k \in DOMAIN map \cup {key} |-> IF k = key THEN value ELSE map[k]]

mapDelete(map, key) == [k \in DOMAIN map \ {key} |-> map[k]]

\* the mutant: a record is replaced as soon as time has passed
checkLimitWindowFromNow(map, key, max, window, t) ==
  LET windowEnd == t + window
      found == IF key \in DOMAIN map /\ ~(map[key].resetTime < windowEnd)
                 THEN map[key]
                 ELSE [count |-> 0, resetTime |-> t + window]
      record == [found EXCEPT !.count = @ + 1]
  IN [attempts |-> mapSet(map, key, record),
      val |-> [allowed |-> record.count <= max,
               remaining |-> Max(0, max - record.count),
               resetTime |-> record.resetTime]]

\* checkLimit: the map after the call and the value returned
checkLimit(map, key, max, window, t) ==
  LET windowStart == t - window
      found == IF key \in DOMAIN map /\ ~(map[key].resetTime < windowStart)
                 THEN map[key]
                 ELSE [count |-> 0, resetTime |-> t + window]
      record == [found EXCEPT !.count = @ + 1]
  IN [attempts |-> mapSet(map, key, record),
      val |-> [allowed |-> record.count <= max,
               remaining |-> Max(0, max - record.count),
               resetTime |-> record.resetTime]]

\* RateLimiter.cleanup
RECURSIVE cleanup(_, _)
cleanup(map, t) ==
  IF \E k \in DOMAIN map : map[k].resetTime < t
    THEN cleanup(mapDelete(map, CHOOSE k \in DOMAIN map : map[k].resetTime < t), t)
    ELSE map

LimiterIdle == attempts = <<>>

(***************************************************************************)
(* Accounts (lib/auth, lib/validation, lib/db) and the timers of the       *)
(* performance monitor (lib/logger).  A timer id is the operation with the *)
(* number of the timer, which stands for the time and the random number of *)
(* the id; the hash of a password is the password under a tag.  The lists  *)
(* of lib/countries are outside the model: whether a country or a gender   *)
(* is on its list is the environment's choice.                             *)
(***************************************************************************)
\* Sanitizer.sanitizeEmail of the emails a request can carry: lower case,
\* trimmed, other characters dropped
sanitizeEmail(email) ==
  CASE email = "Ana@X.cl " -> "ana@x.cl"
    [] email = Null -> ""
    [] OTHER -> email

\* /^[^\s@]+@[^\s@]+\.[^\s@]+$/ on these emails
isValidEmail(email) == email \in {"ana@x.cl", "bea@x.cl"}

\* the length of the texts a request can carry
length(text) ==
  CASE text = "" -> 0
    [] text = "A" -> 1
    [] text = "Ana" -> 3
    [] text = "Lima" -> 4
    [] text = "Chile" -> 5
    [] text = "secreto" -> 7
    [] text = "Secreto1" -> 8
    [] text = "secreto1" -> 8
    [] OTHER -> 9

\* Validator.isValidPassword: no error found
isValidPassword(password) ==
  /\ length(password) >= 8
  /\ password # "secreto1"       \* the text without a capital letter
  /\ length(password) <= 128

isValidAge(age) == ~age.nan /\ age.x >= 13 /\ age.x <= 150

\* String(value) of the ages a sanitized request can carry
String(value) ==
  CASE value = 13 -> "13"
    [] value = 99 -> "99"
    [] value = 100 -> "100"
    [] value = 150 -> "150"
    [] OTHER -> "null"

\* validateField with a rule that is required, bounded in length and custom
required(value) == value # Null /\ value # ""

\* userRegistrationSchema with the password confirmed by itself
userRegistrationSchema(data) ==
  /\ required(data.name) /\ length(data.name) >= 2 /\ length(data.name) <= 100
  /\ required(data.email) /\ length(data.email) <= 255
  /\ isValidEmail(sanitizeEmail(data.email))
  /\ required(data.password) /\ length(data.password) >= 8
  /\ isValidPassword(data.password)
  /\ isValidAge(data.age)
  /\ required(data.city) /\ length(data.city) >= 2 /\ length(data.city) <= 100
  /\ required(data.country) /\ length(data.country) >= 2
  /\ length(data.country) <= 100
  /\ data.gender \in {"Masculino", "Femenino", "Otro"}

\* the sanitized data of validateUserRegistration, the age parsed as the
\* handler parses it
sanitizedRegistration(data) ==
  [name |-> data.name, email |-> sanitizeEmail(data.email),
   password |-> data.password,
   age |-> parseInt(String(sanitizeNumber(data.age.x, 13, 150))),
   city |-> data.city, country |-> data.country, gender |-> data.gender]

\* userSignInSchema
userSignInSchema(data) ==
  /\ required(data.email) /\ isValidEmail(sanitizeEmail(data.email))
  /\ required(data.password) /\ length(data.password) >= 1

\* bcrypt.hash and bcrypt.compare
hashPassword(password) == <<"bcrypt", password>>

verifyPassword(password, hashedPassword) == hashedPassword = hashPassword(password)

\* the CHECK constraints of the users table
usersCheck(row) ==
  /\ row.age >= 13 /\ row.age <= 99
  /\ row.gender \in {"Masculino", "Femenino", "Otro"}

\* the UNIQUE constraint users_email_key
usersEmailKey(table, row) == \A u \in table : u.email # row.email

\* createUser: the row it inserts and what it returns or throws; the id is
\* taken from the sequence before the constraints are checked
createUser(table, seq, userData, failed) ==
  LET row == [id |-> seq + 1, name |-> userData.name, email |-> userData.email,
              password_hash |-> hashPassword(userData.password),
              age |-> userData.age.x, city |-> userData.city,
              country |-> userData.country, gender |-> userData.gender]
  IN CASE failed ->
            [users |-> table, seq |-> seq, id |-> 0,
             val |-> "Error al crear el usuario"]
       [] ~failed /\ ~usersCheck(row) ->
            [users |-> table, seq |-> seq + 1, id |-> 0,
             val |-> "Error al crear el usuario"]
       [] ~failed /\ usersCheck(row) /\ ~usersEmailKey(table, row) ->
            [users |-> table, seq |-> seq + 1, id |-> 0,
             val |-> "El email ya esta registrado"]
       [] OTHER ->
            [users |-> table \cup {row}, seq |-> seq + 1, id |-> row.id,
             val |-> "ok"]

NoUserId == 0

\* authenticateUser: the id of the user with the email and the password
authenticateUser(table, email, password) ==
  LET rows == {u \in table : u.email = email}
  IN IF rows = {} THEN NoUserId
     ELSE LET user == CHOOSE u \in rows : TRUE
          IN IF verifyPassword(password, user.password_hash)
               THEN user.id
               ELSE NoUserId

\* PerformanceMonitor.start and PerformanceMonitor.end
startTimer(map, timerId, t) == mapSet(map, timerId, t)

endTimer(map, timerId) ==
  IF timerId \notin DOMAIN map \/ map[timerId] = 0
    THEN map
    ELSE mapDelete(map, timerId)

\* the registration requests: a body that is not JSON, or a form
Malformed == [malformed |-> TRUE]

RegistrationForm(email, age) ==
  [name |-> "Ana", email |-> email, password |-> "Secreto1", age |-> age,
   city |-> "Lima", country |-> "Chile", gender |-> "Otro"]

Registrations ==
  {RegistrationForm(email, Num(age)) :
     email \in {"ana@x.cl", "Ana@X.cl ", "bea@x.cl"}, age \in {13, 100}}
  \cup {RegistrationForm("bea@x.cl", Num(age)) : age \in {99, 150}}
  \cup {RegistrationForm("ana@x.cl", age) : age \in {Num(12), Num(151), NaN}}
  \cup {[RegistrationForm("ana@x.cl", Num(13)) EXCEPT !.email = "sinarroba"],
        [RegistrationForm("ana@x.cl", Num(13)) EXCEPT !.name = "A"],
        [RegistrationForm("ana@x.cl", Num(13)) EXCEPT !.password = "secreto1"],
        [RegistrationForm("ana@x.cl", Num(13)) EXCEPT !.password = "secreto"],
        [RegistrationForm("ana@x.cl", Num(13)) EXCEPT !.city = ""],
        [RegistrationForm("ana@x.cl", Num(13)) EXCEPT !.gender = "x"]}

\* the sign-in requests
SignIns ==
  {[email |-> email, password |-> password] :
     email \in {"ana@x.cl", "Ana@X.cl ", "bea@x.cl"},
     password \in {"Secreto1", "secreto1"}}
  \cup {[email |-> "sinarroba", password |-> "Secreto1"],
        [email |-> "ana@x.cl", password |-> ""]}

AccountIdle ==
  /\ users = {}
  /\ users_id_seq = 0
  /\ timers = <<>>
  /\ timer_seq = 0

ServiceIdle == SessionIdle /\ LimiterIdle /\ AccountIdle

\* the arguments of a call of a function that is checked on its own
NoArgs == <<>>

AnalyticsOnly ==
  /\ StoreIdle
  /\ args = NoArgs
  /\ ServiceIdle

NoResult == [op |-> "none"]

Midnight == getTime(Today)

Midday == getTime(Today) + 1

InitSmall ==
  /\ entries \in SmallLists
  /\ now = Midday
  /\ result = NoResult
  /\ AnalyticsOnly

InitLong ==
  /\ entries \in LongLists \cup {Reverse(l) : l \in LongLists}
  /\ now = Midday
  /\ result = NoResult
  /\ AnalyticsOnly

InitWeek ==
  /\ entries \in WeekLists
  /\ now = Midday
  /\ result = NoResult
  /\ AnalyticsOnly

InitPeriod ==
  /\ entries \in PeriodLists
  /\ now \in {Midnight, Midday}
  /\ result = NoResult
  /\ AnalyticsOnly

InitInsight ==
  /\ entries \in InsightLists
  /\ now = Midday
  /\ result = NoResult
  /\ AnalyticsOnly

InitDuration ==
  /\ entries = <<>>
  /\ now = Midday
  /\ result = NoResult
  /\ StoreIdle
  /\ args \in [startTime : TimeTexts, endTime : TimeTexts]
  /\ ServiceIdle

InitStore ==
  /\ entries = <<>>
  /\ now = Midday
  /\ result = NoResult
  /\ sleep_logs = {}
  /\ sleep_logs_id_seq = 0
  /\ zone \in Zones
  /\ args = NoArgs
  /\ ServiceIdle

\* the clock stops here
LastInstant == Midday + MaxAdvances * SessionDuration

InitSession ==
  /\ entries = <<>>
  /\ now = Midday
  /\ result = NoResult
  /\ StoreIdle
  /\ args = NoArgs
  /\ SessionIdle
  /\ LimiterIdle
  /\ AccountIdle

InitLimiter ==
  /\ entries = <<>>
  /\ now = Midday
  /\ result = NoResult
  /\ StoreIdle
  /\ args = NoArgs
  /\ SessionIdle
  /\ LimiterIdle
  /\ AccountIdle

(***************************************************************************)
(* Calls.                                                                  *)
(***************************************************************************)
CalculateStreaks ==
  /\ result' = [op |-> "calculateStreaks", val |-> calculateStreaks(entries)]
  /\ UNCHANGED <<entries, now>>
  /\ UNCHANGED outsideAnalytics

CalculateStatistics ==
  /\ result' = [op |-> "calculateStatistics", val |-> calculateStatistics(entries)]
  /\ UNCHANGED <<entries, now>>
  /\ UNCHANGED outsideAnalytics

CalculateTrend ==
  /\ result' = [op |-> "calculateTrend", val |-> calculateTrend(entries)]
  /\ UNCHANGED <<entries, now>>
  /\ UNCHANGED outsideAnalytics

AnalyzeTrend ==
  /\ result' = [op |-> "analyzeTrend", val |-> analyzeTrend(entries)]
  /\ UNCHANGED <<entries, now>>
  /\ UNCHANGED outsideAnalytics

AnalyzePatterns ==
  /\ result' = [op |-> "analyzePatterns", val |-> analyzePatterns(entries)]
  /\ UNCHANGED <<entries, now>>
  /\ UNCHANGED outsideAnalytics

ComparePeriods ==
  /\ result' = [op |-> "comparePeriods", val |-> comparePeriods(entries, now)]
  /\ UNCHANGED <<entries, now>>
  /\ UNCHANGED outsideAnalytics

\* the mutant: calculateStreaks sorts the caller's list in place
GenerateAdvancedAnalyticsSortInPlace ==
  /\ result' = [op |-> "generateAdvancedAnalytics",
                val |-> generateAdvancedAnalytics(entries, now)]
  /\ entries' = SortBy(entries, dateDescending)
  /\ UNCHANGED now
  /\ UNCHANGED outsideAnalytics

GenerateAdvancedAnalytics ==
  /\ result' = [op |-> "generateAdvancedAnalytics",
                val |-> generateAdvancedAnalytics(entries, now)]
  /\ UNCHANGED <<entries, now>>
  /\ UNCHANGED outsideAnalytics

Next ==
  \/ CalculateStatistics
  \/ CalculateTrend
  \/ AnalyzeTrend
  \/ AnalyzePatterns
  \/ CalculateStreaks
  \/ ComparePeriods
  \/ GenerateAdvancedAnalytics

SpecSmall == InitSmall /\ [][Next]_vars

\* the calls whose windows need long lists
NextLong ==
  \/ CalculateStreaks
  \/ AnalyzeTrend

SpecLong == InitLong /\ [][NextLong]_vars

SpecWeek == InitWeek /\ [][Next]_vars

SpecPeriod == InitPeriod /\ [][Next]_vars

SpecInsight == InitInsight /\ [][Next]_vars

(***************************************************************************)
(* Server actions.  user is what getSessionUser returns for the request.   *)
(***************************************************************************)
UpsertEntry ==
  \E user \in Users \cup {NoUser}, formData \in Forms :
    LET rawData == formData.form
        request == [date |-> formData.date, rawRating |-> rawData.rating,
                    rating |-> parseIntOrZero(rawData.rating),
                    comments |-> rawData.comments,
                    start_time |-> rawData.start_time,
                    end_time |-> rawData.end_time]
        sleepValidation == validateSleepEntry(request, now, zone)
        sanitized == sleepValidation.sanitized
        duration == calculateSleepDuration(timeText(request.start_time),
                                           timeText(request.end_time))
        row == [id |-> sleep_logs_id_seq + 1,
                user_id |-> user,
                date |-> sanitized.date,
                rating |-> sanitized.rating,
                comments |-> sanitized.comments,
                start_time |-> request.start_time,
                end_time |-> request.end_time,
                sleep_duration_hours |-> duration.hours,
                sleep_duration_minutes |-> duration.totalMinutes]
        outcome == IF user = NoUser THEN "redirect"
                   ELSE IF ~sleepValidation.valid THEN "invalid"
                   ELSE "ok"
    IN /\ outcome = "ok" => sleep_logs_id_seq < MaxId
       /\ result' = [op |-> "upsertEntry", user |-> user,
                     request |-> request, val |-> outcome]
       /\ IF outcome = "ok"
          THEN /\ sleep_logs' = upsert(sleep_logs, row)
               /\ sleep_logs_id_seq' = sleep_logs_id_seq + 1
          ELSE UNCHANGED <<sleep_logs, sleep_logs_id_seq>>
       /\ UNCHANGED <<entries, now, zone>>
       /\ UNCHANGED outsideStore

\* the mutant: the delete does not ask for the owner
DeleteEntryAnyOwner ==
  \E user \in Users \cup {NoUser}, id \in FormIds :
    LET outcome == IF user = NoUser THEN "redirect"
                   ELSE IF id <= 0 THEN "invalid"
                   ELSE "ok"
    IN /\ result' = [op |-> "deleteEntry", user |-> user,
                     request |-> [id |-> id], val |-> outcome]
       /\ sleep_logs' = IF outcome = "ok"
                          THEN {r \in sleep_logs : ~(r.id = id)}
                          ELSE sleep_logs
       /\ UNCHANGED <<entries, now, sleep_logs_id_seq, zone>>
       /\ UNCHANGED outsideStore

DeleteEntry ==
  \E user \in Users \cup {NoUser}, id \in FormIds :
    LET outcome == IF user = NoUser THEN "redirect"
                   ELSE IF id <= 0 THEN "invalid"
                   ELSE "ok"
    IN /\ result' = [op |-> "deleteEntry", user |-> user,
                     request |-> [id |-> id], val |-> outcome]
       /\ sleep_logs' = IF outcome = "ok"
                          THEN {r \in sleep_logs : ~(r.id = id /\ r.user_id = user)}
                          ELSE sleep_logs
       /\ UNCHANGED <<entries, now, sleep_logs_id_seq, zone>>
       /\ UNCHANGED outsideStore

GetData ==
  \E user \in Users \cup {NoUser} :
    LET list == IF user = NoUser THEN <<>> ELSE selectEntries(sleep_logs, user)
    IN /\ result' = [op |-> "getData", user |-> user,
                     val |-> [entries |-> list,
                              user |-> IF user = NoUser THEN Null ELSE user]]
       /\ UNCHANGED <<entries, now, sleep_logs, sleep_logs_id_seq, zone>>
       /\ UNCHANGED outsideStore

NextStore ==
  \/ UpsertEntry
  \/ DeleteEntry
  \/ GetData

SpecStore == InitStore /\ [][NextStore]_vars

(***************************************************************************)
(* calculateSleepDuration on its own.                                      *)
(***************************************************************************)
CalculateSleepDuration ==
  /\ result' = [op |-> "calculateSleepDuration",
                val |-> calculateSleepDuration(args.startTime, args.endTime)]
  /\ UNCHANGED <<entries, now, args>>
  /\ UNCHANGED storeVars
  /\ UNCHANGED serviceVars

SpecDuration == InitDuration /\ [][CalculateSleepDuration]_vars

(***************************************************************************)
(* Sessions.  sessionToken is the token of the request, failed whether the *)
(* statement sent to the database throws.                                  *)
(***************************************************************************)
outsideSession == <<entries, storeVars, args, attempts, accountVars>>

CreateSession ==
  \E userId \in Users, failed \in BOOLEAN :
    LET sessionToken == session_seq + 1
        expiresAt == now + SessionDuration
    IN /\ session_seq < MaxSessions
       /\ session_seq' = sessionToken
       /\ IF failed
          THEN /\ result' = [op |-> "createSession", cookie |-> cookie,
                             token |-> NoToken,
                             val |-> "Error al crear la sesion"]
               /\ UNCHANGED <<user_sessions, cookie>>
          ELSE /\ result' = [op |-> "createSession", cookie |-> cookie,
                             token |-> sessionToken, val |-> "ok"]
               /\ user_sessions' = user_sessions \cup
                    {[user_id |-> userId, session_token |-> sessionToken,
                      expires_at |-> expiresAt, created_at |-> now]}
               /\ cookie' = sessionToken
       /\ UNCHANGED <<now, signed_out, outsideSession>>

\* clearSession, called and not awaited when no live session has the token:
\* its cookie may or may not reach the response
GetSessionUser ==
  \E sessionToken \in RequestTokens, failed \in BOOLEAN, cleared \in BOOLEAN :
    LET rows == liveSessions(sessionToken, now)
    IN /\ result' = [op |-> "getSessionUser", cookie |-> sessionToken,
                     at |-> now,
                     val |-> IF sessionToken = NoToken \/ failed \/ rows = {}
                               THEN NoUser
                               ELSE (CHOOSE s \in rows : TRUE).user_id]
       /\ IF sessionToken # NoToken /\ ~failed /\ rows = {}
          THEN /\ user_sessions' =
                    {s \in user_sessions : s.session_token # sessionToken}
               /\ cookie' = IF cleared THEN setCookie(sessionToken, NoToken)
                                       ELSE cookie
          ELSE UNCHANGED <<user_sessions, cookie>>
       /\ UNCHANGED <<now, session_seq, signed_out, outsideSession>>

\* POST /api/auth/signout: clearSession
SignOut ==
  \E sessionToken \in RequestTokens, failed \in BOOLEAN :
    /\ result' = [op |-> "signout", cookie |-> sessionToken,
                  val |-> "Sesion cerrada exitosamente"]
    /\ user_sessions' =
         IF sessionToken # NoToken /\ ~failed
           THEN {s \in user_sessions : s.session_token # sessionToken}
           ELSE user_sessions
    /\ cookie' = setCookie(sessionToken, NoToken)
    /\ signed_out' = IF sessionToken # NoToken
                       THEN signed_out \cup {sessionToken}
                       ELSE signed_out
    /\ UNCHANGED <<now, session_seq, outsideSession>>

CleanupExpiredSessions ==
  \E failed \in BOOLEAN :
    /\ result' = [op |-> "cleanupExpiredSessions", cookie |-> cookie,
                  val |-> IF failed THEN "failed" ELSE "done"]
    /\ user_sessions' = IF failed THEN user_sessions
                        ELSE {s \in user_sessions : ~(s.expires_at < now)}
    /\ UNCHANGED <<now, session_seq, cookie, signed_out, outsideSession>>

\* time passes
Advance ==
  \E step \in ClockSteps :
    /\ now + step <= LastInstant
    /\ now' = now + step
    /\ UNCHANGED <<result, sessionVars, outsideSession>>

NextSession ==
  \/ CreateSession
  \/ GetSessionUser
  \/ SignOut
  \/ CleanupExpiredSessions
  \/ Advance

SpecSession == InitSession /\ [][NextSession]_vars

(***************************************************************************)
(* RateLimiter.                                                            *)
(***************************************************************************)
outsideLimiter == <<entries, storeVars, args, sessionVars, accountVars>>

CheckLimit ==
  \E key \in Keys :
    LET call == checkLimit(attempts, key, maxAttempts, windowMs, now)
    IN /\ call.attempts[key].count <= MaxCount
       /\ attempts' = call.attempts
       /\ result' = [op |-> "checkLimit", key |-> key, at |-> now,
                     val |-> call.val]
       /\ UNCHANGED <<now, outsideLimiter>>

Reset ==
  \E key \in Keys :
    /\ attempts' = mapDelete(attempts, key)
    /\ result' = [op |-> "reset", key |-> key, at |-> now]
    /\ UNCHANGED <<now, outsideLimiter>>

\* the setInterval callback
Cleanup ==
  /\ attempts' = cleanup(attempts, now)
  /\ result' = [op |-> "cleanup", at |-> now]
  /\ UNCHANGED <<now, outsideLimiter>>

Tick ==
  /\ now < Midday + MaxTicks
  /\ now' = now + 1
  /\ UNCHANGED <<result, attempts, outsideLimiter>>

NextLimiter ==
  \/ CheckLimit
  \/ Reset
  \/ Cleanup
  \/ Tick

SpecLimiter == InitLimiter /\ [][NextLimiter]_vars

(***************************************************************************)
(* Registration and sign-in (api/auth/register, api/auth/signin).  A       *)
(* request is handled in one step, and the registrations come within the   *)
(* life of a session.  The environment chooses which of the two lists of        *)
(* lib/countries a valid request passes, and the statement that throws, if *)
(* one does and the request reaches it: ensureTables, the INSERT of        *)
(* createUser, the statements of createSession, the DELETE of              *)
(* cleanupExpiredSessions.                                                 *)
(***************************************************************************)
InitAccount ==
  /\ entries = <<>>
  /\ now = Midday
  /\ result = NoResult
  /\ StoreIdle
  /\ args = NoArgs
  /\ ServiceIdle

outsideAccount == <<entries, storeVars, args, attempts>>

\* the session createSession inserts
newSession(userId, sessionToken) ==
  [user_id |-> userId, session_token |-> sessionToken,
   expires_at |-> now + SessionDuration, created_at |-> now]

\* POST /api/auth/register
Register ==
  \E body \in {Malformed} \cup Registrations,
     listed \in {"both", "gender", "country"},
     fault \in {"none", "tables", "insert", "session"} :
    LET parsed == fault # "tables" /\ body # Malformed
        valid == parsed /\ userRegistrationSchema(body)
        accepted == valid /\ listed = "both"
        sanitizedData == sanitizedRegistration(body)
        created == createUser(users, users_id_seq, sanitizedData, fault = "insert")
        sessionToken == session_seq + 1
        status == CASE ~accepted -> 400
                    [] accepted /\ created.val = "El email ya esta registrado" -> 409
                    [] accepted /\ created.val = "Error al crear el usuario" -> 500
                    [] accepted /\ created.val = "ok" /\ fault = "session" -> 500
                    [] OTHER -> 200
    IN /\ listed # "both" => valid
       /\ fault = "insert" => accepted
       /\ fault = "session" => accepted /\ created.val = "ok"
       /\ result' = [op |-> "register", accepted |-> accepted,
                     email |-> IF valid THEN sanitizedData.email ELSE Null,
                     fault |-> fault, val |-> status]
       /\ IF ~accepted
          THEN UNCHANGED <<users, users_id_seq, user_sessions, session_seq, cookie>>
          ELSE /\ users_id_seq < MaxUsers
               /\ users' = created.users
               /\ users_id_seq' = created.seq
               /\ IF created.val # "ok"
                  THEN UNCHANGED <<user_sessions, session_seq, cookie>>
                  ELSE /\ session_seq < MaxSessions
                       /\ session_seq' = sessionToken
                       /\ IF fault = "session"
                          THEN UNCHANGED <<user_sessions, cookie>>
                          ELSE /\ user_sessions' = user_sessions \cup
                                    {newSession(created.id, sessionToken)}
                               /\ cookie' = sessionToken
       /\ UNCHANGED <<now, signed_out, timers, timer_seq, outsideAccount>>

\* POST /api/auth/signin
SignIn ==
  \E body \in {Malformed} \cup SignIns, cleanupFailed \in BOOLEAN,
     fault \in {"none", "tables", "session"} :
    LET timerId == [operation |-> "signin", n |-> timer_seq + 1]
        authTimerId == [operation |-> "authentication", n |-> timer_seq + 2]
        started == startTimer(timers, timerId, now)
        valid == body # Malformed /\ userSignInSchema(body)
        swept == IF cleanupFailed THEN user_sessions
                 ELSE {s \in user_sessions : ~(s.expires_at < now)}
        authStarted == startTimer(started, authTimerId, now)
        authEnded == endTimer(authStarted, authTimerId)
        user == authenticateUser(users, sanitizeEmail(body.email), body.password)
        sessionToken == session_seq + 1
        path == CASE body = Malformed -> "parsing failed"
                  [] body # Malformed /\ ~valid -> "invalid"
                  [] valid /\ fault = "tables" -> "failed"
                  [] valid /\ fault # "tables" /\ user = NoUserId -> "refused"
                  [] valid /\ fault = "session" /\ user # NoUserId -> "session failed"
                  [] OTHER -> "ok"
    IN /\ timer_seq + 2 <= MaxTimers
       /\ cleanupFailed => valid
       /\ fault = "tables" => valid
       /\ fault = "session" => valid /\ user # NoUserId
       /\ path \in {"session failed", "ok"} => session_seq < MaxSessions
       /\ timer_seq' = IF path \in {"parsing failed", "invalid"}
                         THEN timer_seq + 1 ELSE timer_seq + 2
       /\ timers' =
            CASE path = "parsing failed" -> endTimer(started, timerId)
              [] path = "invalid" -> started
              [] path = "failed" ->
                   endTimer(endTimer(authStarted, authTimerId), timerId)
              [] path = "refused" -> authEnded
              [] path = "session failed" ->
                   endTimer(endTimer(authEnded, authTimerId), timerId)
              [] OTHER -> endTimer(authEnded, timerId)
       /\ user_sessions' =
            CASE path \in {"parsing failed", "invalid"} -> user_sessions
              [] path = "ok" -> swept \cup {newSession(user, sessionToken)}
              [] OTHER -> swept
       /\ session_seq' = IF path \in {"session failed", "ok"}
                           THEN sessionToken ELSE session_seq
       /\ cookie' = IF path = "ok" THEN sessionToken ELSE cookie
       /\ result' = [op |-> "signin", path |-> path,
                     val |-> CASE path = "invalid" -> 400
                               [] path = "refused" -> 401
                               [] path = "ok" -> 200
                               [] OTHER -> 500]
       /\ UNCHANGED <<now, signed_out, users, users_id_seq, outsideAccount>>

SpecRegister == InitAccount /\ [][Register]_vars

\* the sign-in requests reach a server with no user, or one where a
\* registration has just created a user and the user's session
InitSignIn ==
  /\ entries = <<>>
  /\ now = Midday
  /\ result = NoResult
  /\ StoreIdle
  /\ args = NoArgs
  /\ LimiterIdle
  /\ timers = <<>>
  /\ timer_seq = 0
  /\ \/ SessionIdle /\ users = {} /\ users_id_seq = 0
     \/ LET created == createUser({}, 0,
                          sanitizedRegistration(RegistrationForm("ana@x.cl", Num(13))),
                          FALSE)
        IN /\ users = created.users
           /\ users_id_seq = created.seq
           /\ session_seq = 1
           /\ user_sessions = {newSession(created.id, 1)}
           /\ cookie = 1
           /\ signed_out = {}

NextSignIn ==
  \/ SignIn
  \/ Advance

SpecSignIn == InitSignIn /\ [][NextSignIn]_vars

(***************************************************************************)
(* The entries by recency, stated without sorting: position i (from 1)     *)
(* holds the entry that has exactly i - 1 entries dated after it.          *)
(***************************************************************************)
LaterCount(es) ==
  [j \in 1..Len(es) |->
     Cardinality({k \in 1..Len(es) : es[k].date > es[j].date})]

ByRecency(es) ==
  LET later == LaterCount(es)
  IN [i \in 1..Len(es) |-> es[CHOOSE j \in 1..Len(es) : later[j] = i - 1]]

Classification(rating) ==
  IF rating \in 7..10 THEN "good" ELSE IF rating \in 1..4 THEN "bad" ELSE "neutral"

ClassesByRecency(es) ==
  LET recent == ByRecency(es)
  IN [i \in 1..Len(es) |-> Classification(recent[i].rating)]

\* positions i .. i + len - 1 of the classes c carry one class
IsRun(c, i, len) == \A k \in i..(i + len - 1) : c[k] = c[i]

\* the length of the maximal run that starts at the most recent entry
LeadingRun(c) ==
  CHOOSE len \in 1..Len(c) :
    /\ IsRun(c, 1, len)
    /\ len = Len(c) \/ c[len + 1] # c[1]

UniqueDates(es) == \A i, j \in 1..Len(es) : i # j => es[i].date # es[j].date

(***************************************************************************)
(* C1.  calculateStreaks on a non-empty list in any order: current is the  *)
(* length of the maximal run of same-classified entries that starts at the *)
(* most recent entry, and type is that entry's classification, whenever    *)
(* the run lies within the 30 most recent entries.                         *)
(* The code restarts current at every change of class inside the first 30  *)
(* positions, so it reports the oldest run there: this fails.              *)
(***************************************************************************)
C1_CurrentIsLeadingRun ==
  (result.op = "calculateStreaks" /\ Len(entries) > 0) =>
    LET c == ClassesByRecency(entries)
    IN LeadingRun(c) <= 30 =>
         /\ result.val.current = LeadingRun(c)
         /\ result.val.type = c[1]

(***************************************************************************)
(* C2.  calculateStreaks: longest is the length of the longest maximal run *)
(* of same-classified entries in the whole date-descending sequence, also  *)
(* for runs that lie beyond the 30 most recent positions.                  *)
(***************************************************************************)
C2_LongestIsLongestRun ==
  result.op = "calculateStreaks" =>
    LET c == ClassesByRecency(entries)
        n == Len(entries)
        longest == result.val.longest
    IN IF n = 0 THEN longest = 0
       ELSE /\ longest \in 1..n
            /\ \E i \in 1..(n - longest + 1) : IsRun(c, i, longest)
            /\ \A i \in 1..(n - longest) : ~IsRun(c, i, longest + 1)

\* a longest run that reaches beyond the 30 most recent positions
C2_Witness ==
  /\ result.op = "calculateStreaks"
  /\ Len(entries) > 30
  /\ LET c == ClassesByRecency(entries)
         longest == result.val.longest
     IN /\ longest < Len(entries)
        /\ \E i \in 2..(Len(entries) - longest + 1) :
             IsRun(c, i, longest) /\ i + longest - 1 > 30

(***************************************************************************)
(* C3.  calculateStreaks recency cutoff: current and type are those of the *)
(* 30 most recent entries alone, current <= 30, and 31 entries of one      *)
(* class give current = 30, longest = 31.                                  *)
(***************************************************************************)
MostRecent(es, count) ==
  LET later == LaterCount(es)
  IN SelectSeq([j \in 1..Len(es) |-> [e |-> es[j], later |-> later[j]]],
               LAMBDA x : x.later < count)

C3_RecencyCutoff ==
  result.op = "calculateStreaks" =>
    LET recent == MostRecent(entries, 30)
        ofRecent == calculateStreaks([j \in 1..Len(recent) |-> recent[j].e])
        c == ClassesByRecency(entries)
    IN /\ result.val.current = ofRecent.current
       /\ result.val.type = ofRecent.type
       /\ result.val.current <= 30
       /\ (Len(entries) = 31 /\ IsRun(c, 1, 31)) =>
             (result.val.current = 30 /\ result.val.longest = 31)

\* 31 entries of one class
C3_Witness ==
  /\ result.op = "calculateStreaks"
  /\ Len(entries) = 31
  /\ IsRun(ClassesByRecency(entries), 1, 31)
  /\ result.val.current = 30
  /\ result.val.longest = 31

(***************************************************************************)
(* C4.  generateAdvancedAnalytics returns the same aggregate for any two   *)
(* orderings of one set of entries with unique dates.  Every ordering is   *)
(* reached by exchanging neighbours, so the claim is that no such exchange *)
(* changes the aggregate.  generateInsights reads the last 7 entries of    *)
(* the list as supplied (see C5): this fails.                              *)
(***************************************************************************)
SwapNeighbours(es, i) ==
  [k \in 1..Len(es) |->
     IF k = i THEN es[i + 1] ELSE IF k = i + 1 THEN es[i] ELSE es[k]]

C4_OrderIndependent ==
  (result.op = "generateAdvancedAnalytics" /\ UniqueDates(entries)) =>
    \A i \in 1..(Len(entries) - 1) :
      generateAdvancedAnalytics(SwapNeighbours(entries, i), now) = result.val

(***************************************************************************)
(* C5.  generateInsights, on the list as the data layer supplies it (by    *)
(* date descending): the 'Semana dificil' warning is emitted exactly when  *)
(* there are at least 7 entries and the mean rating of the 7 most recent   *)
(* entries is more than 1 below the overall average.  The code averages    *)
(* the last 7 of the list, the 7 oldest in that order: this fails.         *)
(***************************************************************************)
DateDescending(es) == \A i \in 1..(Len(es) - 1) : es[i].date > es[i + 1].date

HasInsight(insights, title) == \E i \in 1..Len(insights) : insights[i].title = title

C5_RecentWeekDip ==
  (result.op = "generateAdvancedAnalytics" /\ DateDescending(entries)) =>
    LET recent == MostRecent(entries, 7)
        sum7 == SumSeq([j \in 1..Len(recent) |-> recent[j].e.rating])
    IN HasInsight(result.val.insights, "Semana dificil")
         <=> /\ Len(entries) >= 7
             /\ 100 * sum7 < 7 * (result.val.overview.average - 100)

(***************************************************************************)
(* C6.  comparePeriods: thisWeek, lastWeek, thisMonth and lastMonth are    *)
(* the mean ratings of exactly the entries dated in [now-7d, now],         *)
(* [now-14d, now-7d), [now-30d, now] and [now-60d, now-30d), 0 for an      *)
(* empty window; an entry outside all four windows changes no value.  The  *)
(* code puts no upper bound on thisWeek and thisMonth, so an entry dated   *)
(* after now is counted in both: this fails.                               *)
(***************************************************************************)
Days(d) == d * TicksPerDay

\* the mean, in hundredths, of the ratings of the entries dated in the window
WindowMean(es, from, to, closed) ==
  LET inWindow == {j \in 1..Len(es) :
                     /\ es[j].date * TicksPerDay >= from
                     /\ IF closed THEN es[j].date * TicksPerDay <= to
                                  ELSE es[j].date * TicksPerDay < to}
      ratingsIn == SelectSeq([j \in 1..Len(es) |-> IF j \in inWindow THEN es[j].rating ELSE 0],
                             LAMBDA r : r > 0)
  IN IF inWindow = {} THEN 0
     ELSE (200 * SumSeq(ratingsIn) + Cardinality(inWindow))
            \div (2 * Cardinality(inWindow))

C6_PeriodWindows ==
  result.op = "comparePeriods" =>
    /\ result.val.thisWeek = WindowMean(entries, now - Days(7), now, TRUE)
    /\ result.val.lastWeek = WindowMean(entries, now - Days(14), now - Days(7), FALSE)
    /\ result.val.thisMonth = WindowMean(entries, now - Days(30), now, TRUE)
    /\ result.val.lastMonth = WindowMean(entries, now - Days(60), now - Days(30), FALSE)

(***************************************************************************)
(* C7.  analyzePatterns: with at least one entry, bestDay is the first day *)
(* in Sunday..Saturday order, among the days with data, whose average is   *)
(* the maximum, worstDay the first whose average is the minimum; 'N/A'     *)
(* only when there are no entries.  worstAvg starts at 10 and is replaced  *)
(* only by a strictly smaller average, so a list whose every day averages  *)
(* 10 has worstDay 'N/A': this fails.                                      *)
(***************************************************************************)
DaySum(es, d) ==
  SumSeq([j \in 1..Len(es) |-> IF (es[j].date + 4) % 7 = d THEN es[j].rating ELSE 0])

DayCount(es, d) == Cardinality({j \in 1..Len(es) : (es[j].date + 4) % 7 = d})

DaysWithData(es) == {d \in 0..6 : DayCount(es, d) > 0}

\* day d averages at least as much as day e
AvgAtLeast(es, d, e) ==
  DaySum(es, d) * DayCount(es, e) >= DaySum(es, e) * DayCount(es, d)

FirstBest(es) ==
  CHOOSE d \in DaysWithData(es) :
    /\ \A e \in DaysWithData(es) : AvgAtLeast(es, d, e)
    /\ \A e \in DaysWithData(es) : e < d => ~AvgAtLeast(es, e, d)

FirstWorst(es) ==
  CHOOSE d \in DaysWithData(es) :
    /\ \A e \in DaysWithData(es) : AvgAtLeast(es, e, d)
    /\ \A e \in DaysWithData(es) : e < d => ~AvgAtLeast(es, d, e)

C7_BestWorstDay ==
  result.op = "analyzePatterns" =>
    IF Len(entries) = 0
      THEN result.val.bestDay = "N/A" /\ result.val.worstDay = "N/A"
      ELSE /\ result.val.bestDay = dayNames[FirstBest(entries) + 1]
           /\ result.val.worstDay = dayNames[FirstWorst(entries) + 1]

(***************************************************************************)
(* C8.  analyzePatterns returns for every list, the empty list included, a *)
(* consistencyScore that is a defined number in [0,1] and equals           *)
(* max(0, 1 - stddev(day averages with data) / 5), rounded to hundredths.  *)
(* With no day with data the code divides 0 by 0 and returns NaN: this     *)
(* fails.                                                                  *)
(***************************************************************************)
\* x hundredths is 1 - sd / 5 rounded, sd the deviation of the averages
\* avgs (in hundredths): with m = 100 - x, m - 1/2 < sd / 5 <= m + 1/2
IsRoundedConsistency(x, avgs) ==
  LET k == Len(avgs)
      dev == k * SumSeqSquares(avgs) - SumSeq(avgs) * SumSeq(avgs)
      m == 100 - x
  IN /\ 4 * dev <= 25 * k * k * (2 * m + 1) * (2 * m + 1)
     /\ m > 0 => 4 * dev > 25 * k * k * (2 * m - 1) * (2 * m - 1)

C8_ConsistencyScoreDefined ==
  result.op = "analyzePatterns" =>
    /\ ~result.val.consistencyScore.nan
    /\ result.val.consistencyScore.x \in 0..100
    /\ IsRoundedConsistency(result.val.consistencyScore.x,
                            SelectSeq(result.val.patterns, LAMBDA a : a # 0))

(***************************************************************************)
(* C9.  calculateTrend: fewer than 3 entries give 'stable'; with at least  *)
(* 3 entries of unique dates, in any input order, ratings strictly         *)
(* increasing by date give 'improving', strictly decreasing 'declining',   *)
(* all equal 'stable'; the result classifies the least-squares slope of    *)
(* rating against date-ascending index by slope > 0.1 and slope < -0.1.    *)
(* The slope is restated over pairs of entries, the index of an entry      *)
(* being the number of entries dated before it:                            *)
(*   slope = sum (xi - xj)(yi - yj) / sum (xi - xj)^2.                     *)
(***************************************************************************)
EarlierCount(es) ==
  [j \in 1..Len(es) |->
     Cardinality({k \in 1..Len(es) : es[k].date < es[j].date})]

PairSlopeNum(es) ==
  LET n == Len(es)
      x == EarlierCount(es)
  IN SumSeq([p \in 1..(n * n) |->
               LET i == ((p - 1) \div n) + 1
                   j == ((p - 1) % n) + 1
               IN (x[i] - x[j]) * (es[i].rating - es[j].rating)])

PairSlopeDen(es) ==
  LET n == Len(es)
      x == EarlierCount(es)
  IN SumSeq([p \in 1..(n * n) |->
               LET i == ((p - 1) \div n) + 1
                   j == ((p - 1) % n) + 1
               IN (x[i] - x[j]) * (x[i] - x[j])])

IncreasingByDate(es) ==
  \A i, j \in 1..Len(es) : es[i].date < es[j].date => es[i].rating < es[j].rating

DecreasingByDate(es) ==
  \A i, j \in 1..Len(es) : es[i].date < es[j].date => es[i].rating > es[j].rating

AllEqualRatings(es) == \A i, j \in 1..Len(es) : es[i].rating = es[j].rating

C9_CoarseTrend ==
  (result.op = "calculateTrend" /\ UniqueDates(entries)) =>
    IF Len(entries) < 3 THEN result.val = "stable"
    ELSE /\ IncreasingByDate(entries) => result.val = "improving"
         /\ DecreasingByDate(entries) => result.val = "declining"
         /\ AllEqualRatings(entries) => result.val = "stable"
         /\ result.val =
              IF 10 * PairSlopeNum(entries) > PairSlopeDen(entries) THEN "improving"
              ELSE IF 10 * PairSlopeNum(entries) < -PairSlopeDen(entries) THEN "declining"
              ELSE "stable"

\* ratings that increase by date, supplied in another order
C9_Witness ==
  /\ result.op = "calculateTrend"
  /\ Len(entries) >= 3
  /\ IncreasingByDate(entries)
  /\ \E i \in 1..(Len(entries) - 1) : entries[i].date > entries[i + 1].date
  /\ result.val = "improving"

(***************************************************************************)
(* C10.  analyzeTrend on at least 15 entries: with recent the 14 latest    *)
(* entries by date and earlier the up to 14 entries before them,           *)
(* change = mean(recent) - mean(earlier) and                               *)
(* percentage = |change / mean(earlier)| * 100;  |change| < 0.3 gives      *)
(* stable/weak; otherwise the direction is improving for change > 0 and    *)
(* declining for change < 0, the strength strong for percentage > 20,      *)
(* moderate for percentage > 10, else weak.  Direction stable always has   *)
(* strength weak.                                                          *)
(***************************************************************************)
RatingsWithLater(es, from, to) ==
  LET later == LaterCount(es)
  IN SelectSeq([j \in 1..Len(es) |->
                  IF later[j] \in from..to THEN es[j].rating ELSE 0],
               LAMBDA r : r > 0)

C11_InsufficientHistory ==
  (result.op = "analyzeTrend" /\ Len(entries) <= 14) =>
    /\ result.val.direction = "stable"
    /\ result.val.strength = "weak"
    /\ result.val.percentage = 0

\* 7..14 entries whose ratings differ: the earlier window is empty
C11_Witness ==
  /\ result.op = "analyzeTrend"
  /\ Len(entries) \in 7..14
  /\ ~AllEqualRatings(entries)
  /\ result.val.direction = "stable"
  /\ result.val.percentage = 0

(***************************************************************************)
(* C12.  calculateStatistics, consistency (in hundredths).                 *)
(* As stated: for every list, the empty list included, consistency lies in *)
(* [0,1] and is 1 exactly when all ratings are equal.  The ratings of the  *)
(* empty list are all equal and its consistency is 0: this fails.          *)
(***************************************************************************)
RatingsOf(es) == [j \in 1..Len(es) |-> es[j].rating]

C13_EmptyInput ==
  Len(entries) = 0 =>
    /\ result.op = "calculateStatistics" =>
         result.val = [average |-> 0, highest |-> 0, lowest |-> 0, total |-> 0,
                       trend |-> "stable", consistency |-> 0]
    /\ result.op = "calculateStreaks" =>
         result.val = [current |-> 0, longest |-> 0, type |-> "neutral"]
    /\ ENABLED CalculateStatistics
    /\ ENABLED CalculateStreaks

\* the statistics of the empty list have been computed
C13_Witness ==
  /\ Len(entries) = 0
  /\ result.op = "calculateStatistics"
  /\ result.val.total = 0

(***************************************************************************)
(* C14.  analyzePatterns, weekday/weekend split: every entry adds its      *)
(* rating to exactly one of two groups, Monday..Friday dates to the        *)
(* weekday group and Saturday/Sunday dates to the weekend group;           *)
(* weekdayAverage and weekendAverage are the means of the raw ratings of   *)
(* their groups (rounded to hundredths), not of the per-day averages, and  *)
(* 0 for an empty group.  getDay numbers Sunday 0 .. Saturday 6.           *)
(***************************************************************************)
GroupSum(es, days) ==
  SumSeq([j \in 1..Len(es) |->
            IF (es[j].date + 4) % 7 \in days THEN es[j].rating ELSE 0])

GroupCount(es, days) ==
  Cardinality({j \in 1..Len(es) : (es[j].date + 4) % 7 \in days})

GroupMean(es, days) ==
  IF GroupCount(es, days) = 0 THEN 0
  ELSE (200 * GroupSum(es, days) + GroupCount(es, days))
         \div (2 * GroupCount(es, days))

C14_WeekdayWeekendSplit ==
  result.op = "analyzePatterns" =>
    /\ GroupCount(entries, 1..5) + GroupCount(entries, {0, 6}) = Len(entries)
    /\ result.val.weekdayAverage = GroupMean(entries, 1..5)
    /\ result.val.weekendAverage = GroupMean(entries, {0, 6})

\* two Mondays rated 10, the six days between them rated 1: the weekday
\* mean of raw ratings is 4, the mean of the weekday averages would be 2.8
C14_Witness ==
  /\ result.op = "analyzePatterns"
  /\ Len(entries) = 8
  /\ \A i \in 1..8 : entries[i].rating = IF i \in {1, 8} THEN 10 ELSE 1
  /\ (entries[1].date + 4) % 7 = 1
  /\ result.val.weekdayAverage = 400
  /\ result.val.weekendAverage = 100

(***************************************************************************)
(* C15.  generateInsights, output shape: the list begins with exactly one  *)
(* average-tier insight (positive for overview.average >= 8, info for      *)
(* >= 6, warning otherwise); further insights follow in the rule order     *)
(* trend, consistency, weekday/weekend gap, recent-week dip, at most one   *)
(* per rule.  With the rules numbered 1..5, the rule numbers of the list   *)
(* start at 1 and increase strictly.                                       *)
(***************************************************************************)
RuleOf(title) ==
  CASE title \in {"Excelente calidad de sueno", "Calidad de sueno moderada",
                  "Calidad de sueno preocupante"} -> 1
    [] title \in {"Tendencia positiva", "Tendencia preocupante"} -> 2
    [] title \in {"Sueno inconsistente", "Sueno muy consistente"} -> 3
    [] title \in {"Mejor sueno en fines de semana",
                  "Peor sueno en fines de semana"} -> 4
    [] title = "Semana dificil" -> 5

C15_InsightShape ==
  result.op = "generateAdvancedAnalytics" =>
    LET insights == result.val.insights
        average == result.val.overview.average
    IN /\ Len(insights) >= 1
       /\ RuleOf(insights[1].title) = 1
       /\ insights[1].type = IF average >= 800 THEN "positive"
                              ELSE IF average >= 600 THEN "info"
                              ELSE "warning"
       /\ \A i \in 1..(Len(insights) - 1) :
            RuleOf(insights[i].title) < RuleOf(insights[i + 1].title)

\* an aggregate in which all five rules have fired
C15_Witness ==
  /\ result.op = "generateAdvancedAnalytics"
  /\ Len(result.val.insights) = 5
  /\ result.val.insights[2].title = "Tendencia positiva"
  /\ result.val.insights[5].title = "Semana dificil"

(***************************************************************************)
(* C16.  generateInsights, rule independence.                              *)
(* As stated: the five rules are evaluated independently, so there are     *)
(* inputs for which no rule fires (an empty insight list), inputs for      *)
(* which only some fire and inputs for which all five fire.  The lists     *)
(* are those of the insight family; the statement is evaluated once, in    *)
(* the state that holds the aggregate of the empty list.  The average rule *)
(* has a tier for every average, so no list is without insight: this       *)
(* fails.                                                                  *)
(***************************************************************************)
FiredIn(insights) == {RuleOf(insights[i].title) : i \in 1..Len(insights)}

FiredRules(es) == FiredIn(generateAdvancedAnalytics(es, now).insights)

C16_ZeroSomeAll ==
  (result.op = "generateAdvancedAnalytics" /\ entries = <<>>) =>
    /\ \E es \in InsightLists : FiredRules(es) = {}
    /\ \E es \in InsightLists : FiredRules(es) \notin {{}, 1..5}
    /\ \E es \in InsightLists : FiredRules(es) = 1..5

(***************************************************************************)
(* C16, amended.  The average rule fires for every input, so every insight *)
(* list has between one and five insights; each of the other four rules    *)
(* fires for some inputs and not for others, and there are inputs for      *)
(* which only the average rule fires and inputs for which all five fire.   *)
(***************************************************************************)
C16_OneSomeAll ==
  result.op = "generateAdvancedAnalytics" =>
    /\ 1 \in FiredIn(result.val.insights)
    /\ Len(result.val.insights) \in 1..5
    /\ entries = <<>> =>
         /\ \A k \in 2..5 :
              /\ \E es \in InsightLists : k \in FiredRules(es)
              /\ \E es \in InsightLists : k \notin FiredRules(es)
         /\ \E es \in InsightLists : FiredRules(es) = {1}
         /\ \E es \in InsightLists : FiredRules(es) = 1..5

\* at least 7 entries for which only the average rule has fired
C16_Witness ==
  /\ result.op = "generateAdvancedAnalytics"
  /\ Len(entries) >= 7
  /\ FiredIn(result.val.insights) = {1}

(***************************************************************************)
(* C17.  generateInsights, consistency rule: a consistency warning is      *)
(* emitted exactly when overview.consistency < 0.5, a consistency positive *)
(* exactly when overview.consistency > 0.8, never both, and nothing for    *)
(* 0.5 <= consistency <= 0.8.                                              *)
(***************************************************************************)
InsightTypes(insights, title) ==
  {insights[i].type : i \in {j \in 1..Len(insights) : insights[j].title = title}}

C17_ConsistencyRule ==
  result.op = "generateAdvancedAnalytics" =>
    LET insights == result.val.insights
        consistency == result.val.overview.consistency
        warned == HasInsight(insights, "Sueno inconsistente")
        praised == HasInsight(insights, "Sueno muy consistente")
    IN /\ warned <=> consistency < 50
       /\ praised <=> consistency > 80
       /\ ~(warned /\ praised)
       /\ InsightTypes(insights, "Sueno inconsistente") \subseteq {"warning"}
       /\ InsightTypes(insights, "Sueno muy consistente") \subseteq {"positive"}
       /\ 3 \in FiredIn(insights) <=> (warned \/ praised)

\* a consistency of exactly 0.8: neither insight
C17_Witness ==
  /\ result.op = "generateAdvancedAnalytics"
  /\ Len(entries) >= 2
  /\ result.val.overview.consistency = 80
  /\ 3 \notin FiredIn(result.val.insights)

(***************************************************************************)
(* C18.  Determinism and idempotence: for a fixed entry list and a fixed   *)
(* current instant every analytics function returns the same output on     *)
(* every call, generateInsights run again on the same entries and          *)
(* aggregates returns the same ordered list, and no call leaves state that *)
(* changes a later call's result.  In every state the result held is what  *)
(* the same call returns if made again now, and no call changes the list   *)
(* or the instant.                                                         *)
(***************************************************************************)
CallAgain(op) ==
  CASE op = "calculateStatistics" -> calculateStatistics(entries)
    [] op = "calculateTrend" -> calculateTrend(entries)
    [] op = "analyzeTrend" -> analyzeTrend(entries)
    [] op = "analyzePatterns" -> analyzePatterns(entries)
    [] op = "calculateStreaks" -> calculateStreaks(entries)
    [] op = "comparePeriods" -> comparePeriods(entries, now)
    [] op = "generateAdvancedAnalytics" -> generateAdvancedAnalytics(entries, now)

SameOnRepeat ==
  result.op # "none" =>
    /\ result.val = CallAgain(result.op)
    /\ result.op = "generateAdvancedAnalytics" =>
         generateInsights(entries, [overview |-> result.val.overview,
                                    trend |-> result.val.trend,
                                    pattern |-> result.val.pattern])
           = result.val.insights

UniquePerUserDate ==
  \A r \in sleep_logs, q \in sleep_logs :
    (r.user_id = q.user_id /\ r.date = q.date) => r = q

\* the step is an accepted upsertEntry of the request now in result'
Upserted == result'.op = "upsertEntry" /\ result'.val = "ok"

ReplacesEntryOfDate ==
  Upserted =>
    \A r \in sleep_logs :
      (r.user_id = result'.user /\ r.date = result'.request.date) =>
        \E replaced \in sleep_logs' :
          /\ replaced.id = r.id
          /\ replaced.user_id = r.user_id
          /\ replaced.date = r.date
          /\ replaced.rating = result'.request.rating
          /\ replaced.comments = result'.request.comments
          /\ replaced.start_time = result'.request.start_time
          /\ replaced.end_time = result'.request.end_time
          /\ sleep_logs' = (sleep_logs \ {r}) \cup {replaced}

C19_OnePerUserDate ==
  /\ []UniquePerUserDate
  /\ [][ReplacesEntryOfDate]_vars

(***************************************************************************)
(* C20: getData returns the entries of the session user and no others, and *)
(* none without a session; deleteEntry removes an entry only if the        *)
(* session user owns it; and no upsertEntry or deleteEntry of one user     *)
(* changes the list that getData gives another user.                       *)
(***************************************************************************)
Range(list) == {list[i] : i \in 1..Len(list)}

EntriesOf(user) == {r \in sleep_logs : r.user_id = user}

GetDataOwnOnly ==
  result.op = "getData" =>
    /\ Range(result.val.entries) = EntriesOf(result.user)
    /\ result.user = NoUser => result.val.entries = <<>>

DeleteOwnOnly ==
  result'.op = "deleteEntry" =>
    \A r \in sleep_logs \ sleep_logs' :
      r.user_id = result'.user /\ r.id = result'.request.id

OthersUntouched ==
  \A other \in Users :
    other # result'.user =>
      selectEntries(sleep_logs', other) = selectEntries(sleep_logs, other)

C20_OwnershipIsolation ==
  /\ []GetDataOwnOnly
  /\ [][DeleteOwnOnly /\ OthersUntouched]_vars

\* a user asked to delete the entry of another user, which is still there
C20_Witness ==
  /\ result.op = "deleteEntry"
  /\ result.val = "ok"
  /\ \E r \in sleep_logs : r.id = result.request.id /\ r.user_id # result.user
  /\ EntriesOf(result.user) # {}

(***************************************************************************)
(* C21: every entry that upsertEntry writes has an integer rating in 1..10 *)
(* and a date that is not after the server's day; and an upsertEntry whose *)
(* rating is missing, not a number, 0 or 11, or whose date is missing or   *)
(* after the server's day, throws and leaves the table as it was.          *)
(***************************************************************************)
ServerToday == (now + zone) \div TicksPerDay

WrittenAreValid ==
  \A r \in sleep_logs :
    /\ r.rating \in 1..10
    /\ r.date <= ServerToday

SubmittedFails(request) ==
  \/ parseInt(request.rawRating).nan
  \/ parseInt(request.rawRating).x \notin 1..10
  \/ request.date = NoDate
  \/ request.date > ServerToday

RejectsInvalid ==
  (result'.op = "upsertEntry" /\ SubmittedFails(result'.request)) =>
    /\ result'.val # "ok"
    /\ sleep_logs' = sleep_logs

C21_ValidatedWrites ==
  /\ []WrittenAreValid
  /\ [][RejectsInvalid]_vars

(***************************************************************************)
(* C22: for clock times HH:MM (hours 0..23, minutes 0..59)                 *)
(* calculateSleepDuration gives as totalMinutes the clock difference end   *)
(* - start modulo 1440, an end at or before the start being the next day,  *)
(* so that 1 <= totalMinutes <= 1440 (23:00 to 07:00 gives 480, equal      *)
(* times give 1440); a missing or malformed time gives null.               *)
(***************************************************************************)
IsClockTime(text) ==
  /\ Len(text) = 2
  /\ ~text[1].nan /\ text[1].x \in 0..23
  /\ ~text[2].nan /\ text[2].x \in 0..59

Clock(text) == 60 * text[1].x + text[2].x

C22_SleepDuration ==
  result.op = "calculateSleepDuration" =>
    IF IsClockTime(args.startTime) /\ IsClockTime(args.endTime)
    THEN /\ result.val.totalMinutes =
              ((Clock(args.endTime) - Clock(args.startTime) + 1439) % 1440) + 1
         /\ result.val.totalMinutes \in 1..1440
    ELSE result.val = NoDuration

(***************************************************************************)
(* C23: in comparePeriods an entry dated in [now-14d, now] is counted in   *)
(* exactly one of thisWeek and lastWeek, an entry dated in [now-60d, now]  *)
(* in exactly one of thisMonth and lastMonth; an entry dated exactly at    *)
(* now-7d (now-30d) is in thisWeek (thisMonth) and not in lastWeek         *)
(* (lastMonth); and every entry of thisWeek or lastWeek is in thisMonth.   *)
(* With a single entry in the list this shows in the result: exactly one   *)
(* mean of each pair is not 0.                                             *)
(***************************************************************************)
ExactlyOne(a, b) == (a \/ b) /\ ~(a /\ b)

CountedIn(e, window) == \E i \in 1..Len(window) : window[i] = e

WindowPartition ==
  \A j \in 1..Len(entries) :
    LET e == entries[j]
        at == getTime(e.date)
        week == CountedIn(e, thisWeekEntries(entries, now))
        weekBefore == CountedIn(e, lastWeekEntries(entries, now))
        month == CountedIn(e, thisMonthEntries(entries, now))
        monthBefore == CountedIn(e, lastMonthEntries(entries, now))
    IN /\ (at >= now - Days(14) /\ at <= now) => ExactlyOne(week, weekBefore)
       /\ (at >= now - Days(60) /\ at <= now) => ExactlyOne(month, monthBefore)
       /\ at = now - Days(7) => (week /\ ~weekBefore)
       /\ at = now - Days(30) => (month /\ ~monthBefore)
       /\ (week \/ weekBefore) => month

SingleEntryShows ==
  (Len(entries) = 1 /\ getTime(entries[1].date) <= now) =>
    LET at == getTime(entries[1].date)
    IN /\ at >= now - Days(14) =>
            ExactlyOne(result.val.thisWeek # 0, result.val.lastWeek # 0)
       /\ at >= now - Days(60) =>
            ExactlyOne(result.val.thisMonth # 0, result.val.lastMonth # 0)
       /\ at = now - Days(7) => result.val.lastWeek = 0
       /\ at = now - Days(30) => result.val.lastMonth = 0

C23_WindowPartition ==
  result.op = "comparePeriods" => (WindowPartition /\ SingleEntryShows)

\* one entry dated exactly at now-7d and one exactly at now-30d
C23_Witness ==
  /\ result.op = "comparePeriods"
  /\ \E j \in 1..Len(entries) : getTime(entries[j].date) = now - Days(7)
  /\ \E j \in 1..Len(entries) : getTime(entries[j].date) = now - Days(30)
  /\ result.val.lastWeek = 0
  /\ result.val.thisWeek # 0

(***************************************************************************)
(* C24: for every entry list calculateStreaks returns                      *)
(* 0 <= current <= longest <= number of entries, and current >= 1 and      *)
(* longest >= 1 when the list is not empty.                                *)
(***************************************************************************)
C24_StreakBounds ==
  result.op = "calculateStreaks" =>
    /\ 0 <= result.val.current
    /\ result.val.current <= result.val.longest
    /\ result.val.longest <= Len(entries)
    /\ Len(entries) > 0 => (result.val.current >= 1 /\ result.val.longest >= 1)

\* a list longer than the cutoff whose three numbers differ
C24_Witness ==
  /\ result.op = "calculateStreaks"
  /\ Len(entries) > RecentCutoff
  /\ 1 <= result.val.current
  /\ result.val.current < result.val.longest
  /\ result.val.longest < Len(entries)

(***************************************************************************)
(* C25: the weekday/weekend rule of generateInsights fires only when the   *)
(* list has at least one weekday entry and at least one weekend entry; a   *)
(* list with entries on one side only never gives a 'better sleep on       *)
(* weekends' or 'worse sleep on weekends' insight.                         *)
(***************************************************************************)
HasWeekendInsight(insights) ==
  \/ HasInsight(insights, "Mejor sueno en fines de semana")
  \/ HasInsight(insights, "Peor sueno en fines de semana")

C25_WeekendRuleNeedsBothSides ==
  (result.op = "generateAdvancedAnalytics" /\ HasWeekendInsight(result.val.insights)) =>
    /\ GroupCount(entries, 1..5) > 0
    /\ GroupCount(entries, {0, 6}) > 0

(***************************************************************************)
(* C26: getSessionUser returns a user only if a session row with the       *)
(* token of the request exists, belongs to that user and was created by    *)
(* createSession less than 30 days earlier; and once a sign-out for a      *)
(* token has completed, no later request with that token is authenticated, *)
(* also when the delete inside clearSession failed.                        *)
(***************************************************************************)
Authenticated(token) ==
  IF result.op = "getSessionUser"
    THEN result.cookie = token /\ result.val # NoUser
    ELSE FALSE

AuthenticatedOnlyLive ==
  IF result.op = "getSessionUser"
    THEN result.val # NoUser =>
           \E s \in user_sessions :
             /\ s.session_token = result.cookie
             /\ s.user_id = result.val
             /\ s.created_at <= result.at
             /\ result.at < s.created_at + 30 * TicksPerDay
    ELSE TRUE

C26_SessionValidity ==
  /\ AuthenticatedOnlyLive
  /\ \A token \in signed_out : ~Authenticated(token)

(***************************************************************************)
(* C27: a call of checkLimit for a key made while the key's record exists  *)
(* and its resetTime has not passed keeps the record and adds one to its   *)
(* count, a call that creates a record counts 1, and the call is allowed   *)
(* exactly when the count is at most maxAttempts: so of the calls from the *)
(* creation of a record until its resetTime at most maxAttempts are        *)
(* allowed.  remaining is max(0, maxAttempts - count), never negative, and *)
(* the records of the other keys are left as they were.                    *)
(***************************************************************************)
\* the step is a call of checkLimit, for the key in result'
Checked == result'.op = "checkLimit" /\ attempts' # attempts

HasRecord(key) == key \in DOMAIN attempts

CheckLimitCounts ==
  Checked =>
    LET key == result'.key
        count == attempts'[key].count
    IN /\ (HasRecord(key) /\ now <= attempts[key].resetTime) =>
            /\ attempts'[key].resetTime = attempts[key].resetTime
            /\ count = attempts[key].count + 1
       /\ ~HasRecord(key) => count = 1
       /\ result'.val.allowed <=> count <= maxAttempts
       /\ result'.val.remaining = Max(0, maxAttempts - count)
       /\ result'.val.remaining >= 0
       /\ result'.val.resetTime = attempts'[key].resetTime
       /\ DOMAIN attempts' = DOMAIN attempts \cup {key}
       /\ \A other \in DOMAIN attempts \ {key} : attempts'[other] = attempts[other]

C27_RateLimitBound == [][CheckLimitCounts]_vars

\* the call after the last allowed one of a window is refused at the
\* window's resetTime, with the record of the other key in place
C27_Witness ==
  /\ result.op = "checkLimit"
  /\ ~result.val.allowed
  /\ result.val.remaining = 0
  /\ result.at = result.val.resetTime
  /\ attempts[result.key].count = maxAttempts + 1
  /\ \E other \in DOMAIN attempts : other # result.key

(***************************************************************************)
(* C28: once the time is past the resetTime that checkLimit returned for a *)
(* key, the next checkLimit for the key starts a fresh window (count 1,    *)
(* allowed), whether or not cleanup has run in between; and the call after *)
(* reset(key) is allowed.                                                  *)
(***************************************************************************)
FreshAfterResetTime ==
  Checked =>
    LET key == result'.key
    IN (~HasRecord(key) \/ now > attempts[key].resetTime) =>
         /\ attempts'[key].count = 1
         /\ result'.val.allowed

C28_WindowExpiry == [][FreshAfterResetTime]_vars

(***************************************************************************)
(* C29: every timer the sign-in handler starts is ended before the handler *)
(* returns, on every path, so between requests the timers map of the       *)
(* performance monitor holds no timer.                                     *)
(***************************************************************************)
C29_TimerHygiene == timers = <<>>

(***************************************************************************)
(* C30: a registration that validateUserRegistration and the two list      *)
(* checks accept, with an email no user has, creates the user and a        *)
(* session and answers 200, and with an email a user has it answers 409,   *)
(* provided no statement fails on the database's side.                     *)
(***************************************************************************)
Registered ==
  /\ result'.op = "register"
  /\ now' = now
  /\ <<users_id_seq, result>>' # <<users_id_seq, result>>

RegistrationAgrees ==
  (Registered /\ result'.accepted /\ result'.fault = "none") =>
    IF \E u \in users : u.email = result'.email
      THEN result'.val = 409 /\ users' = users
      ELSE /\ result'.val = 200
           /\ \E u \in users' \ users :
                /\ u.email = result'.email
                /\ \E s \in user_sessions' \ user_sessions : s.user_id = u.id

C30_RegistrationAgrees == [][RegistrationAgrees]_vars

====
